---- MODULE Spec2Model ----
(***************************************************************************)
(* A model of the Emulated Hue + bridge (ha_emulated_hue): the device      *)
(* registry (HueDeviceManager), its persistence through the Store, and the *)
(* Hue REST views that resolve a numeric light ID against the registry.    *)
(*                                                                         *)
(* Hue IDs are the decimal strings str(1), str(2), ...; the model keeps    *)
(* the integer n for the string str(n) (the code only ever builds an ID    *)
(* with str(counter) and reads it back with int()).  An entity id          *)
(* "domain.object" is the pair <<domain, object>>, so that                 *)
(* entity_id.split(".")[0] is the first component.                         *)
(***************************************************************************)
EXTENDS Integers, FiniteSets, Sequences, TLC

(* ------------------------------ bounds -------------------------------- *)

\* Largest Hue ID _generate_hue_id may hand out in a run of the model.
MaxId == 3

\* Number of coroutines that can be suspended in the registry at once.
MaxTasks == 2

\* Number of calls (registry operations and Hue requests) in a run.
MaxCalls == 3

\* Last reading of the clock in a run, in the unit of the timeouts.
MaxTime == 7

\* Number of Hue requests in a run that follows the clock.
MaxRequests == 2

\* Number of PUT requests in a run that is followed to its end.
MaxWaits == 1

(* ----------------------------- constants ------------------------------ *)

\* Python None where a string is expected (a name, a client address)
None == "None"

\* Python None where an entity id is expected (the device is unlinked)
NoEntity == <<>>

\* _Sentinel.UNSET: "entity_id not provided", distinct from None
UNSET == <<"unset">>

\* "no Hue ID" in a handler's result
NoId == 0

SUPPORTED_DOMAINS ==
    {"light", "switch", "fan", "cover", "climate", "media_player",
     "script", "scene", "input_boolean"}

\* Entity keys a caller may name.  <<"sensor", "c">> has an unsupported
\* domain; <<"light", "gone">> is an entity the platform had during an
\* earlier run of the bridge and has no more.
EntityIds == {<<"light", "a">>, <<"switch", "b">>, <<"sensor", "c">>,
              <<"light", "gone">>}

\* The entities in the platform's state machine.
PlatformEntities == EntityIds \ {<<"light", "gone">>}

\* Entities of further categories that the Hue requests drive: a light that
\* switches on and off only, a script, a scene and a climate entity.
ApiEntityIds == {<<"light", "p">>, <<"script", "s">>, <<"scene", "n">>,
                 <<"climate", "k">>}

AllEntityIds == EntityIds \cup ApiEntityIds

\* Entities of every category the bridge tells apart by the capabilities
\* they declare: lights with colour and colour temperature (ext), colour
\* only (col) and colour temperature only (ct); a cover, a fan, a media
\* player and a climate entity that declare the feature a level needs, and
\* one of each that does not (the cover o declares OPEN and CLOSE); a
\* humidifier; and a switch whose attributes carry colour modes.
TypedEntityIds ==
    {<<"light", "ext">>, <<"light", "col">>, <<"light", "ct">>,
     <<"cover", "c">>, <<"cover", "o">>, <<"fan", "f">>, <<"fan", "o">>,
     <<"media_player", "m">>, <<"media_player", "o">>,
     <<"climate", "t">>, <<"humidifier", "h">>, <<"switch", "x">>}

\* Device names a caller may give to a new device, and to a renamed one.
Names == {"Lamp"}

NewNames == {"Desk"}

\* Addresses a Hue client may call from, and those is_local() accepts.
Clients == {"192.168.1.20", "8.8.8.8"}

LocalAddresses == {"192.168.1.20"}

\* hass.states.get(entity_id) of an entity the platform does not have
NoState == "NoState"

Tasks == 1..MaxTasks

\* Hue IDs a caller may name: active, retired and never allocated ones.
HueIds == 1..MaxId

(* ------------------------------- state -------------------------------- *)

VARIABLES
    devices,          \* HueDeviceManager._devices: hue_id -> HueDevice
    retired_ids,      \* HueDeviceManager._retired_ids
    next_id_counter,  \* HueDeviceManager._next_id_counter
    store,            \* the Store's document: <<>> (none) or <<data>>
    hass_states,      \* hass.states: entity_id -> state, or NoState
    phase,            \* "new" after __init__, "running" after async_setup
    tasks,            \* the registry coroutines suspended at an await
    requests,         \* the PUT requests suspended at an await
    cached_states,    \* app[KEY_CACHED_STATES]: entity_id -> [state, time]
    now,              \* time.time(), in the unit of the timeouts
    calls,            \* the service calls handed to hass.services
    out,              \* what the last handler step returned or raised
    deleted,          \* history: IDs retired by a delete of this process
    found,            \* history: entity_id -> the on/off that the PUT whose
                      \* echo was cached last had found the entity in
    subs,             \* the listeners that async_track_state_change_event
                      \* holds for the waits: the IDs of their requests
    ncalls            \* history: number of calls made so far

vars == <<devices, retired_ids, next_id_counter, store, hass_states, phase,
          tasks, requests, cached_states, now, calls, out, deleted, found,
          subs, ncalls>>

(* ------------------------------ HueDevice ----------------------------- *)

HueDevice(hue_id, name, entity_id, device_type) ==
    [hue_id |-> hue_id, name |-> name, entity_id |-> entity_id,
     device_type |-> device_type, last_accessed_by |-> None]

is_linked(device) == device.entity_id # NoEntity

to_dict(device) ==
    [hue_id |-> device.hue_id, name |-> device.name,
     entity_id |-> device.entity_id, device_type |-> device.device_type,
     last_accessed_by |-> device.last_accessed_by]

from_dict(data) ==
    [hue_id |-> data.hue_id, name |-> data.name,
     entity_id |-> data.entity_id, device_type |-> data.device_type,
     last_accessed_by |-> data.last_accessed_by]

record_access(device, client_ip) ==
    [device EXCEPT !.last_accessed_by = client_ip]

update_name(device, new_name) == [device EXCEPT !.name = new_name]

update_entity_link(device, entity_id) ==
    [device EXCEPT !.entity_id = entity_id]

(* --------------------------- registry helpers ------------------------- *)

\* dict.pop(key): the dict without the key
Pop(d, k) == [i \in (DOMAIN d) \ {k} |-> d[i]]

\* d[k] = v on a dict
Put(d, k, v) == [i \in (DOMAIN d) \cup {k} |-> IF i = k THEN v ELSE d[i]]

SetMax(S) == CHOOSE m \in S : \A x \in S : x <= m

\* get_device(hue_id): <<device>>, or <<>> for None
get_device(hue_id) ==
    IF hue_id \in DOMAIN devices THEN <<devices[hue_id]>> ELSE <<>>

\* A get_device_by_entity whose loop returns None after the first device it
\* looks at (the `return None` indented into the for-loop).
get_device_by_entity_first_only(entity_id) ==
    IF DOMAIN devices = {}
    THEN <<>>
    ELSE LET first == CHOOSE i \in DOMAIN devices :
                          \A j \in DOMAIN devices : i <= j
         IN  IF devices[first].entity_id = entity_id
             THEN <<devices[first]>>
             ELSE <<>>

\* get_device_by_entity(entity_id): <<device>>, or <<>> for None
get_device_by_entity(entity_id) ==
    IF \E i \in DOMAIN devices : devices[i].entity_id = entity_id
    THEN <<devices[CHOOSE i \in DOMAIN devices :
                       devices[i].entity_id = entity_id]>>
    ELSE <<>>

\* An _is_valid_entity that only asks whether the entity exists.
_is_valid_entity_exists_only(entity_id) ==
    hass_states[entity_id] # NoState

_is_valid_entity(entity_id) ==
    IF hass_states[entity_id] = NoState
    THEN FALSE
    ELSE entity_id[1] \in SUPPORTED_DOMAINS

\* An _is_entity_already_linked that finds no device for any entity.
_is_entity_already_linked_never(entity_id) == FALSE

_is_entity_already_linked(entity_id) ==
    get_device_by_entity(entity_id) # <<>>

_get_device_type(entity_id) ==
    IF entity_id = NoEntity THEN "light" ELSE entity_id[1]

\* A _generate_hue_id that hands out the lowest ID no active device has,
\* looking neither at the counter nor at the retired IDs.
_generate_hue_id_lowest_inactive(c) ==
    CHOOSE i \in 1..(Cardinality(DOMAIN devices) + 1) :
        /\ i \notin DOMAIN devices
        /\ \A j \in 1..(i - 1) : j \in DOMAIN devices

\* The while-loop of _generate_hue_id from counter value c: the first
\* c' >= c that is neither active nor retired.
RECURSIVE _generate_hue_id(_)
_generate_hue_id(c) ==
    IF c \notin DOMAIN devices /\ c \notin retired_ids
    THEN c
    ELSE _generate_hue_id(c + 1)

\* The dict _save_data builds before it awaits the Store.
SaveData(devs, retired, counter) ==
    [devices |-> [i \in DOMAIN devs |-> to_dict(devs[i])],
     retired_ids |-> retired,
     next_id_counter |-> counter]

\* What _load_data makes of a loaded document.
LoadedDevices(data) ==
    [i \in (DOMAIN devices) \cup (DOMAIN data.devices) |->
        IF i \in DOMAIN data.devices
        THEN from_dict(data.devices[i])
        ELSE devices[i]]

LoadedRetired(data) == data.retired_ids

\* A _load_data that restores the counter the document stores.
LoadedCounter_stored(data) == data.next_id_counter

LoadedCounter(data) ==
    LET all_ids == (DOMAIN LoadedDevices(data)) \cup LoadedRetired(data)
    IN  IF all_ids # {} THEN SetMax(all_ids) + 1 ELSE next_id_counter

\* A coroutine slot: where the coroutine is suspended ("idle": no coroutine),
\* the call it runs, the Hue ID that call was given or will return (create)
\* and the dict it handed to the Store.
Idle == [pc |-> "idle", op |-> "none", id |-> NoId, data |-> <<>>]

\* A call's outcome: the operation, the Hue ID it returned (create) or was
\* given, and the value returned or the exception raised.
Out(op, id, result) ==
    [op |-> op, id |-> id, result |-> result, body |-> <<>>]

\* The outcome of a request answered with a JSON body.
Reply(op, id, result, body) ==
    [op |-> op, id |-> id, result |-> result, body |-> <<body>>]

\* A bridge that starts no call while a PUT waits for a state change.
Called_after_wait ==
    /\ phase = "running"
    /\ ncalls < MaxCalls
    /\ \A r \in DOMAIN requests : requests[r].pc # "wait"
    /\ ncalls' = ncalls + 1

\* A new call may start.
Called == /\ phase = "running"
          /\ ncalls < MaxCalls
          /\ ncalls' = ncalls + 1

\* The coroutine slot a new call runs in.
FreeTask == CHOOSE t \in Tasks :
                /\ tasks[t].pc = "idle"
                /\ \A u \in Tasks : tasks[u].pc = "idle" => t <= u

HasFreeTask == \E t \in Tasks : tasks[t].pc = "idle"

\* The call mutated the registry and is suspended in `await _save_data()`.
Suspend(op, id, devs, retired, counter) ==
    tasks' = [tasks EXCEPT ![FreeTask] =
                 [pc |-> "save", op |-> op, id |-> id,
                  data |-> <<SaveData(devs, retired, counter)>>]]

(* -------------------------------- Init -------------------------------- *)

\* Documents an earlier run of the bridge can have left in the Store; the
\* stored counter is never read back, so it may hold anything.
StoredDocs ==
    { <<>>,
      <<[devices |->
            (1 :> to_dict(HueDevice(1, "Lamp", <<"light", "a">>, "light")))
            @@ (2 :> to_dict(HueDevice(2, "Lamp", <<"light", "gone">>,
                                       "light"))),
         retired_ids |-> {},
         next_id_counter |-> 1]>> }

Init ==
    /\ devices = <<>>
    /\ retired_ids = {}
    /\ next_id_counter = 1
    /\ store \in StoredDocs
    /\ hass_states = [e \in AllEntityIds |->
                          IF e \in PlatformEntities THEN "on" ELSE NoState]
    /\ phase = "new"
    /\ tasks = [t \in Tasks |-> Idle]
    /\ requests = <<>>
    /\ cached_states = <<>>
    /\ now = 0
    /\ calls = <<>>
    /\ out = Out("init", NoId, "none")
    /\ deleted = {}
    /\ found = <<>>
    /\ subs = {}
    /\ ncalls = 0

(* ------------------------- HueDeviceManager --------------------------- *)

\* async_setup: _load_data once, before any other call reaches the manager.
\* ok = FALSE: the Store raised and _load_data swallowed it.
async_setup(ok) ==
    /\ phase = "new"
    /\ phase' = "running"
    /\ IF ok /\ store # <<>>
       THEN /\ devices' = LoadedDevices(store[1])
            /\ retired_ids' = LoadedRetired(store[1])
            /\ next_id_counter' = LoadedCounter(store[1])
       ELSE UNCHANGED <<devices, retired_ids, next_id_counter>>
    /\ out' = Out("setup", NoId, IF ok THEN "loaded" ELSE "failed")
    /\ UNCHANGED <<store, hass_states, cached_states, now, calls, tasks,
                   requests, deleted, ncalls, found, subs>>

\* async_create_hue_device up to `await self._save_data()`, or to its raise.
async_create_hue_device(name, entity_id) ==
    LET hue_id == _generate_hue_id(next_id_counter) IN
    /\ Called
    /\ HasFreeTask
    /\ hue_id <= MaxId
    /\ next_id_counter' = hue_id + 1
    /\ IF entity_id # NoEntity /\ ~_is_valid_entity(entity_id)
       THEN /\ out' = Out("create", NoId, "ValueError: not valid")
            /\ UNCHANGED <<devices, tasks>>
       ELSE IF entity_id # NoEntity /\ _is_entity_already_linked(entity_id)
       THEN /\ out' = Out("create", NoId, "ValueError: linked")
            /\ UNCHANGED <<devices, tasks>>
       ELSE /\ devices' = Put(devices, hue_id,
                              HueDevice(hue_id, name, entity_id,
                                        _get_device_type(entity_id)))
            /\ Suspend("create", hue_id, devices', retired_ids,
                       next_id_counter')
            /\ UNCHANGED out
    /\ UNCHANGED <<retired_ids, store, hass_states, cached_states, now, calls,
                   phase, requests, deleted, found, subs>>

\* An async_delete_hue_device that forgets to retire the ID.
async_delete_hue_device_no_retire(hue_id) ==
    /\ Called
    /\ HasFreeTask
    /\ IF hue_id \notin DOMAIN devices
       THEN /\ out' = Out("delete", hue_id, "False")
            /\ UNCHANGED <<devices, tasks, deleted>>
       ELSE /\ devices' = Pop(devices, hue_id)
            /\ deleted' = deleted \cup {hue_id}
            /\ Suspend("delete", hue_id, devices', retired_ids,
                       next_id_counter)
            /\ UNCHANGED out
    /\ UNCHANGED <<retired_ids, next_id_counter, store, hass_states,
                   cached_states, now, calls, phase, requests, found, subs>>

\* async_delete_hue_device up to `await self._save_data()`, or to its
\* `return False`.
async_delete_hue_device(hue_id) ==
    /\ Called
    /\ HasFreeTask
    /\ IF hue_id \notin DOMAIN devices
       THEN /\ out' = Out("delete", hue_id, "False")
            /\ UNCHANGED <<devices, retired_ids, tasks, deleted>>
       ELSE /\ devices' = Pop(devices, hue_id)
            /\ retired_ids' = retired_ids \cup {hue_id}
            /\ deleted' = deleted \cup {hue_id}
            /\ Suspend("delete", hue_id, devices', retired_ids',
                       next_id_counter)
            /\ UNCHANGED out
    /\ UNCHANGED <<next_id_counter, store, hass_states, cached_states, now,
                   calls, phase, requests, found, subs>>

\* An async_update_hue_device that validates every entity it is given, the
\* device's current one too.
async_update_hue_device_always_validates(hue_id, name, entity_id) ==
    /\ Called
    /\ HasFreeTask
    /\ IF hue_id \notin DOMAIN devices
       THEN /\ out' = Out("update", hue_id, "False")
            /\ UNCHANGED <<devices, tasks>>
       ELSE LET device == devices[hue_id]
                validate == entity_id # UNSET /\ entity_id # NoEntity
                named == IF name # None THEN update_name(device, name)
                                        ELSE device
                linked == IF entity_id # UNSET
                          THEN update_entity_link(named, entity_id)
                          ELSE named
            IN  IF validate /\ ~_is_valid_entity(entity_id)
                THEN /\ out' = Out("update", hue_id, "ValueError: not valid")
                     /\ UNCHANGED <<devices, tasks>>
                ELSE IF validate /\ _is_entity_already_linked(entity_id)
                THEN /\ out' = Out("update", hue_id, "ValueError: linked")
                     /\ UNCHANGED <<devices, tasks>>
                ELSE /\ devices' = [devices EXCEPT ![hue_id] = linked]
                     /\ Suspend("update", hue_id, devices', retired_ids,
                                next_id_counter)
                     /\ UNCHANGED out
    /\ UNCHANGED <<retired_ids, next_id_counter, store, hass_states,
                   cached_states, now, calls, phase, requests, deleted,
                   found, subs>>

\* An async_update_hue_device that applies the name before it validates the
\* entity.
async_update_hue_device_name_first(hue_id, name, entity_id) ==
    /\ Called
    /\ HasFreeTask
    /\ IF hue_id \notin DOMAIN devices
       THEN /\ out' = Out("update", hue_id, "False")
            /\ UNCHANGED <<devices, tasks>>
       ELSE LET device == devices[hue_id]
                validate == /\ entity_id # UNSET
                            /\ entity_id # NoEntity
                            /\ entity_id # device.entity_id
                named == IF name # None THEN update_name(device, name)
                                        ELSE device
                linked == IF entity_id # UNSET
                          THEN update_entity_link(named, entity_id)
                          ELSE named
            IN  IF validate /\ ~_is_valid_entity(entity_id)
                THEN /\ out' = Out("update", hue_id, "ValueError: not valid")
                     /\ devices' = [devices EXCEPT ![hue_id] = named]
                     /\ UNCHANGED tasks
                ELSE IF validate /\ _is_entity_already_linked(entity_id)
                THEN /\ out' = Out("update", hue_id, "ValueError: linked")
                     /\ devices' = [devices EXCEPT ![hue_id] = named]
                     /\ UNCHANGED tasks
                ELSE /\ devices' = [devices EXCEPT ![hue_id] = linked]
                     /\ Suspend("update", hue_id, devices', retired_ids,
                                next_id_counter)
                     /\ UNCHANGED out
    /\ UNCHANGED <<retired_ids, next_id_counter, store, hass_states,
                   cached_states, now, calls, phase, requests, deleted,
                   found, subs>>

\* async_update_hue_device up to `await self._save_data()`, or to its
\* `return False` or raise.
async_update_hue_device(hue_id, name, entity_id) ==
    /\ Called
    /\ HasFreeTask
    /\ IF hue_id \notin DOMAIN devices
       THEN /\ out' = Out("update", hue_id, "False")
            /\ UNCHANGED <<devices, tasks>>
       ELSE LET device == devices[hue_id]
                validate == /\ entity_id # UNSET
                            /\ entity_id # NoEntity
                            /\ entity_id # device.entity_id
                named == IF name # None THEN update_name(device, name)
                                        ELSE device
                linked == IF entity_id # UNSET
                          THEN update_entity_link(named, entity_id)
                          ELSE named
            IN  IF validate /\ ~_is_valid_entity(entity_id)
                THEN /\ out' = Out("update", hue_id, "ValueError: not valid")
                     /\ UNCHANGED <<devices, tasks>>
                ELSE IF validate /\ _is_entity_already_linked(entity_id)
                THEN /\ out' = Out("update", hue_id, "ValueError: linked")
                     /\ UNCHANGED <<devices, tasks>>
                ELSE /\ devices' = [devices EXCEPT ![hue_id] = linked]
                     /\ Suspend("update", hue_id, devices', retired_ids,
                                next_id_counter)
                     /\ UNCHANGED out
    /\ UNCHANGED <<retired_ids, next_id_counter, store, hass_states,
                   cached_states, now, calls, phase, requests, deleted,
                   found, subs>>

\* async_reload up to its first await: _save_data has built its dict.
async_reload ==
    /\ Called
    /\ HasFreeTask
    /\ Suspend("reload", NoId, devices, retired_ids, next_id_counter)
    /\ UNCHANGED <<devices, retired_ids, next_id_counter, store, hass_states,
                   cached_states, now, calls, phase, requests, out,
                   deleted, found, subs>>

\* `await self._store.async_save(data)` of task t ends: the document is
\* written (ok) or the Store raised and _save_data swallowed it.  The call
\* then returns, except async_reload, which goes on to _load_data.
_save_data(t, ok) ==
    /\ tasks[t].pc = "save"
    /\ store' = IF ok THEN tasks[t].data ELSE store
    /\ IF tasks[t].op = "reload"
       THEN /\ tasks' = [tasks EXCEPT ![t] =
                            [pc |-> "load", op |-> "reload", id |-> NoId,
                             data |-> <<>>]]
            /\ UNCHANGED out
       ELSE /\ tasks' = [tasks EXCEPT ![t] = Idle]
            /\ out' = Out(tasks[t].op, tasks[t].id,
                          IF tasks[t].op = "create" THEN "device" ELSE "True")
    /\ UNCHANGED <<devices, retired_ids, next_id_counter, hass_states,
                   cached_states, now, calls, phase, requests, deleted,
                   ncalls, found, subs>>

\* `await self._store.async_load()` of the reloading task t ends, and
\* _load_data runs to its end.
_load_data(t, ok) ==
    /\ tasks[t].pc = "load"
    /\ tasks' = [tasks EXCEPT ![t] = Idle]
    /\ IF ok /\ store # <<>>
       THEN /\ devices' = LoadedDevices(store[1])
            /\ retired_ids' = LoadedRetired(store[1])
            /\ next_id_counter' = LoadedCounter(store[1])
       ELSE UNCHANGED <<devices, retired_ids, next_id_counter>>
    /\ out' = Out("reload", NoId, IF ok THEN "loaded" ELSE "failed")
    /\ UNCHANGED <<store, hass_states, cached_states, now, calls, phase,
                   requests, deleted, ncalls, found, subs>>

(* ------------------------- platform and Hue values -------------------- *)

CACHE_TIMEOUT == 2

STATE_CHANGE_TIMEOUT == 5

HUE_API_STATE_BRI_MIN == 1

HUE_API_STATE_BRI_MAX == 254

HUE_API_STATE_HUE_MIN == 0

HUE_API_STATE_HUE_MAX == 65535

HUE_API_STATE_SAT_MIN == 0

HUE_API_STATE_SAT_MAX == 254

HUE_API_STATE_CT_MIN == 153

HUE_API_STATE_CT_MAX == 500

OFF_MAPS_TO_ON_DOMAINS == {"script", "scene"}

\* An optional value: <<>> is Python's None, <<v>> the value v.
Some(v) == <<v>>

Min(a, b) == IF a <= b THEN a ELSE b

Max(a, b) == IF a >= b THEN a ELSE b

\* Python's round(n / d) for n >= 0, d > 0: to the nearest integer, a tie to
\* the even one.
Round(n, d) ==
    LET q == n \div d
        r == n % d
    IN  IF 2 * r < d THEN q
        ELSE IF 2 * r > d THEN q + 1
        ELSE IF q % 2 = 0 THEN q ELSE q + 1

\* The attributes of the platform's entities.  They do not change in a run:
\* light.a and light.gone are dimmable lights, light.p switches on and off
\* only, and the other entities carry no attribute the bridge reads.
\* The entities of TypedEntityIds declare what their names say; the lights
\* among them shine at brightness 128, red (hue 0, saturation 100) where
\* they have colour and at 4000 K where they have a colour temperature, and
\* the entities with a level are at 50.
attributes(entity_id) ==
    [supported_color_modes |->
         CASE entity_id \in {<<"light", "a">>, <<"light", "gone">>} ->
                  {"brightness"}
           [] entity_id \in {<<"light", "ext">>, <<"switch", "x">>} ->
                  {"hs", "color_temp"}
           [] entity_id = <<"light", "col">> -> {"hs"}
           [] entity_id = <<"light", "ct">> -> {"color_temp"}
           [] OTHER -> IF entity_id[1] = "light" THEN {"onoff"} ELSE {},
     supported_features |->
         CASE entity_id = <<"cover", "c">> ->
                  {"OPEN", "CLOSE", "SET_POSITION"}
           [] entity_id = <<"cover", "o">> -> {"OPEN", "CLOSE"}
           [] entity_id = <<"fan", "f">> -> {"SET_SPEED"}
           [] entity_id = <<"media_player", "m">> -> {"VOLUME_SET"}
           [] entity_id = <<"climate", "t">> -> {"TARGET_TEMPERATURE"}
           [] OTHER -> {},
     brightness |->
         IF entity_id \in {<<"light", "a">>, <<"light", "ext">>,
                           <<"light", "col">>, <<"light", "ct">>}
         THEN Some(128) ELSE <<>>,
     hs_color |->
         IF entity_id \in {<<"light", "ext">>, <<"light", "col">>}
         THEN Some(<<0, 100>>) ELSE <<>>,
     color_temp_kelvin |->
         IF entity_id \in {<<"light", "ext">>, <<"light", "ct">>}
         THEN Some(4000) ELSE <<>>,
     level |->
         IF entity_id \in {<<"cover", "c">>, <<"fan", "f">>,
                           <<"media_player", "m">>, <<"climate", "t">>}
         THEN Some(50) ELSE <<>>]

\* hass.states.get(entity_id) of an entity the platform has: its State
\* object, a snapshot that a later change of the entity does not alter.
State(entity_id) ==
    [entity_id |-> entity_id,
     domain |-> entity_id[1],
     state |-> hass_states[entity_id],
     attributes |-> attributes(entity_id)]

\* light.brightness_supported(color_modes)
brightness_supported(color_modes) ==
    color_modes \cap {"brightness", "color_temp", "hs", "rgb", "rgbw",
                      "rgbww", "white", "xy"} # {}

\* light.color_supported(color_modes)
color_supported(color_modes) ==
    color_modes \cap {"hs", "rgb", "rgbw", "rgbww", "xy"} # {}

\* light.color_temp_supported(color_modes)
color_temp_supported(color_modes) == "color_temp" \in color_modes

\* DIMMABLE_SUPPORTED_FEATURES_BY_DOMAIN.get(domain)
DIMMABLE_SUPPORTED_FEATURES_BY_DOMAIN(domain) ==
    CASE domain = "cover" -> Some("SET_POSITION")
      [] domain = "fan" -> Some("SET_SPEED")
      [] domain = "media_player" -> Some("VOLUME_SET")
      [] domain = "climate" -> Some("TARGET_TEMPERATURE")
      [] OTHER -> <<>>

\* A check that takes any declared feature of a dimmable domain for the one
\* a level needs.
_state_supports_hue_brightness_any_feature(state, color_modes) ==
    IF state.domain = "light"
    THEN brightness_supported(color_modes)
    ELSE /\ DIMMABLE_SUPPORTED_FEATURES_BY_DOMAIN(state.domain) # <<>>
         /\ state.attributes.supported_features # {}

_state_supports_hue_brightness(state, color_modes) ==
    IF state.domain = "light"
    THEN brightness_supported(color_modes)
    ELSE LET required_feature ==
                 DIMMABLE_SUPPORTED_FEATURES_BY_DOMAIN(state.domain)
         IN  IF required_feature = <<>>
             THEN FALSE
             ELSE required_feature[1] \in state.attributes.supported_features

\* _OFF_STATES.get(entity.domain, STATE_OFF)
_OFF_STATES(domain) == IF domain = "cover" THEN "closed" ELSE "off"

\* An on/off that takes "off" for the off state of every domain.
_hass_to_hue_state_off_only(entity) == entity.state # "off"

_hass_to_hue_state(entity) == entity.state # _OFF_STATES(entity.domain)

\* A conversion that takes the Hue bri for the platform's brightness.
hue_brightness_to_hass_unscaled(value) == Min(255, value)

hue_brightness_to_hass(value) ==
    Min(255, Round(value * 255, HUE_API_STATE_BRI_MAX))

hass_to_hue_brightness(value) ==
    Max(1, Round(value * HUE_API_STATE_BRI_MAX, 255))

\* A conversion that rounds the kelvin value down to a hundred.
color_temperature_mired_to_kelvin_hundreds(mired) ==
    ((1000000 \div mired) \div 100) * 100

\* color_util.color_temperature_mired_to_kelvin / kelvin_to_mired
color_temperature_mired_to_kelvin(mired) == 1000000 \div mired

color_temperature_kelvin_to_mired(kelvin) == 1000000 \div kelvin

\* max(v_min, min(value, v_max)) of a value that is not None
Clamp(value, v_min, v_max) ==
    IF value = <<>> THEN <<>> ELSE Some(Max(v_min, Min(value[1], v_max)))

_clamp_values(data) ==
    [data EXCEPT
        !.bri = Clamp(@, HUE_API_STATE_BRI_MIN, HUE_API_STATE_BRI_MAX),
        !.hue = Clamp(@, HUE_API_STATE_HUE_MIN, HUE_API_STATE_HUE_MAX),
        !.sat = Clamp(@, HUE_API_STATE_SAT_MIN, HUE_API_STATE_SAT_MAX),
        !.ct = Clamp(@, HUE_API_STATE_CT_MIN, HUE_API_STATE_CT_MAX)]

\* attributes.get(key) or 0
OrZero(value) == IF value = <<>> THEN 0 ELSE value[1]

_build_entity_state_dict(entity) ==
    LET is_on == _hass_to_hue_state(entity)
        a == entity.attributes
        lit == [on |-> is_on,
                bri |-> IF is_on
                        THEN Some(hass_to_hue_brightness(OrZero(a.brightness)))
                        ELSE Some(0),
                hue |-> IF is_on /\ a.hs_color # <<>>
                        THEN Some((a.hs_color[1][1] * HUE_API_STATE_HUE_MAX)
                                  \div 360)
                        ELSE Some(0),
                sat |-> IF is_on /\ a.hs_color # <<>>
                        THEN Some((a.hs_color[1][2] * HUE_API_STATE_SAT_MAX)
                                  \div 100)
                        ELSE Some(0),
                ct |-> IF is_on /\ a.color_temp_kelvin # <<>>
                       THEN Some(color_temperature_kelvin_to_mired(
                                     a.color_temp_kelvin[1]))
                       ELSE Some(0)]
        \* climate: temperature; humidifier: humidity; fan: percentage;
        \* cover: current position, all of 0..100 and 0 when absent
        percent == Round(OrZero(a.level) * HUE_API_STATE_BRI_MAX, 100)
        \* media_player: the volume level in hundredths, 1.0 or 0.0 when
        \* absent
        volume == IF a.level = <<>>
                  THEN (IF is_on THEN 100 ELSE 0)
                  ELSE a.level[1]
        data == IF entity.domain \in {"climate", "humidifier", "fan", "cover"}
                THEN [lit EXCEPT !.bri = Some(percent)]
                ELSE IF entity.domain = "media_player"
                THEN [lit EXCEPT !.bri =
                          Some(Round(Min(100, volume) * HUE_API_STATE_BRI_MAX,
                                     100))]
                ELSE lit
    IN  _clamp_values(data)

(* --------------------------- the echo cache --------------------------- *)

\* The fill that _get_entity_state_dict applies to a cached state, in place.
FillCached(cached) ==
    LET d1 == IF cached.bri = <<>>
              THEN [cached EXCEPT !.bri =
                        Some(IF cached.on THEN HUE_API_STATE_BRI_MAX ELSE 0)]
              ELSE cached
        d2 == IF d1.hue = <<>> \/ d1.sat = <<>>
              THEN [d1 EXCEPT !.hue = Some(0), !.sat = Some(0)]
              ELSE d1
        d3 == IF d2.bri = Some(0)
              THEN [d2 EXCEPT !.hue = Some(0), !.sat = Some(0)]
              ELSE d2
    IN  _clamp_values(d3)

\* A _get_entity_state_dict that uses an entry with a deadline whenever it
\* has not expired, whatever the entity's state.
_get_entity_state_dict_age_only(entity, cache, t) ==
    IF entity.entity_id \notin DOMAIN cache
    THEN [data |-> _build_entity_state_dict(entity), cache |-> cache]
    ELSE LET entry == cache[entity.entity_id] IN
         IF \/ entry.time = <<>>
            \/ t - entry.time[1] < CACHE_TIMEOUT
         THEN LET data == FillCached(entry.state) IN
              [data |-> data,
               cache |-> Put(cache, entity.entity_id,
                             [entry EXCEPT !.state = data])]
         ELSE [data |-> _build_entity_state_dict(entity),
               cache |-> Pop(cache, entity.entity_id)]

\* A _get_entity_state_dict that removes the entry it has used.
_get_entity_state_dict_read_once(entity, cache, t) ==
    IF entity.entity_id \notin DOMAIN cache
    THEN [data |-> _build_entity_state_dict(entity), cache |-> cache]
    ELSE LET entry == cache[entity.entity_id] IN
         IF \/ entry.time = <<>>
            \/ /\ t - entry.time[1] < CACHE_TIMEOUT
               /\ entry.state.on = _hass_to_hue_state(entity)
         THEN [data |-> FillCached(entry.state),
               cache |-> Pop(cache, entity.entity_id)]
         ELSE [data |-> _build_entity_state_dict(entity),
               cache |-> Pop(cache, entity.entity_id)]

\* _get_entity_state_dict(entity, cached_states) at time t: the state dict it
\* returns and the cache it leaves.  An entry is [state, time]; time <<>> is
\* the entry without expiry.
_get_entity_state_dict(entity, cache, t) ==
    IF entity.entity_id \notin DOMAIN cache
    THEN [data |-> _build_entity_state_dict(entity), cache |-> cache]
    ELSE LET entry == cache[entity.entity_id] IN
         IF \/ entry.time = <<>>
            \/ /\ t - entry.time[1] < CACHE_TIMEOUT
               /\ entry.state.on = _hass_to_hue_state(entity)
         THEN LET data == FillCached(entry.state) IN
              [data |-> data,
               cache |-> Put(cache, entity.entity_id,
                             [entry EXCEPT !.state = data])]
         ELSE [data |-> _build_entity_state_dict(entity),
               cache |-> Pop(cache, entity.entity_id)]

\* An unreachable shape of the kind of a light that switches on and off
\* only: it has no bri.
UnreachableJson_on_off(device) ==
    [state |-> [on |-> FALSE, reachable |-> FALSE],
     name |-> device.name,
     type |-> "On/Off light"]

\* The reply of device_to_json for a device that is unlinked or whose entity
\* the platform does not have.
UnreachableJson(device) ==
    [state |-> [on |-> FALSE, reachable |-> FALSE, bri |-> 0],
     name |-> device.name,
     type |-> "Dimmable light"]

\* device_to_json(hass, device, cached_states) at time t: the JSON it returns
\* and the cache it leaves.  ct is an optional value: a cached state that a
\* request without ct left holds None, which the JSON carries as null.
device_to_json(device, cache, t) ==
    IF device.entity_id = NoEntity
    THEN [json |-> UnreachableJson(device), cache |-> cache]
    ELSE IF hass_states[device.entity_id] = NoState
    THEN [json |-> UnreachableJson(device), cache |-> cache]
    ELSE LET state == State(device.entity_id)
             color_modes == state.attributes.supported_color_modes
             got == _get_entity_state_dict(state, cache, t)
             d == got.data
             base == [on |-> d.on, reachable |-> state.state # "unavailable"]
             is_light_domain == state.domain = "light"
             color == is_light_domain /\ color_supported(color_modes)
             color_temp == is_light_domain /\ color_temp_supported(color_modes)
             json ==
                 IF color /\ color_temp
                 THEN [state |-> [on |-> base.on, reachable |-> base.reachable,
                                  bri |-> d.bri[1], hue |-> d.hue[1],
                                  sat |-> d.sat[1], ct |-> d.ct,
                                  colormode |-> IF d.hue[1] > 0 \/ d.sat[1] > 0
                                                THEN "hs" ELSE "ct"],
                       name |-> device.name,
                       type |-> "Extended color light"]
                 ELSE IF color
                 THEN [state |-> [on |-> base.on, reachable |-> base.reachable,
                                  bri |-> d.bri[1], hue |-> d.hue[1],
                                  sat |-> d.sat[1], colormode |-> "hs"],
                       name |-> device.name,
                       type |-> "Color light"]
                 ELSE IF color_temp
                 THEN [state |-> [on |-> base.on, reachable |-> base.reachable,
                                  bri |-> d.bri[1], ct |-> d.ct,
                                  colormode |-> "ct"],
                       name |-> device.name,
                       type |-> "Color temperature light"]
                 ELSE IF _state_supports_hue_brightness(state, color_modes)
                 THEN [state |-> [on |-> base.on, reachable |-> base.reachable,
                                  bri |-> d.bri[1]],
                       name |-> device.name,
                       type |-> "Dimmable light"]
                 ELSE [state |-> base,
                       name |-> device.name,
                       type |-> "On/Off light"]
         IN  [json |-> json, cache |-> got.cache]

(* ------------------------- the body of a PUT -------------------------- *)

\* A JSON value is <<"bool", b>>, <<"int", n>>, <<"str", s>>, <<"null">> or
\* <<"list", values>>.  A body is [valid, json]: valid is whether
\* request.json() can decode it, json the decoded object, a function from
\* its keys to their values.
JBool(b) == <<"bool", b>>

JInt(n) == <<"int", n>>

JStr(s) == <<"str", s>>

JNull == <<"null">>

JList(values) == <<"list", values>>

Object(json) == [valid |-> TRUE, json |-> json]

\* The object {}
EmptyJson == [k \in {} |-> JNull]

\* A body request.json() raises json.JSONDecodeError on, a ValueError.
Undecodable == [valid |-> FALSE, json |-> EmptyJson]

\* The bodies {"on": false}, {"on": true} and {"bri": n}
Off == "on" :> JBool(FALSE)

On == "on" :> JBool(TRUE)

Bri(n) == "bri" :> JInt(n)

Ok(v) == [err |-> "", value |-> v]

Raise(e) == [err |-> e, value |-> 0]

\* int(s) and float(s) of the strings a body holds here
StrToInt(s) == IF s = "12" THEN Ok(12) ELSE Raise("ValueError")

\* int(value): ValueError for a string that is no number, TypeError for
\* None and for a list
PyInt(value) ==
    CASE value[1] = "int" -> Ok(value[2])
      [] value[1] = "bool" -> Ok(IF value[2] THEN 1 ELSE 0)
      [] value[1] = "str" -> StrToInt(value[2])
      [] OTHER -> Raise("TypeError")

\* float(value), of the same errors
PyFloat(value) == PyInt(value)

\* (float(value[0]), float(value[1])): a list shorter than two raises
\* IndexError, a value that has no items TypeError; the items of the string
\* "12" are "1" and "2", those of any other string here are no numbers.
PyXy(value) ==
    CASE value[1] = "list" ->
             IF Len(value[2]) = 0 THEN Raise("IndexError")
             ELSE IF PyFloat(value[2][1]).err # ""
             THEN Raise(PyFloat(value[2][1]).err)
             ELSE IF Len(value[2]) = 1 THEN Raise("IndexError")
             ELSE IF PyFloat(value[2][2]).err # ""
             THEN Raise(PyFloat(value[2][2]).err)
             ELSE Ok(<<PyFloat(value[2][1]).value, PyFloat(value[2][2]).value>>)
      [] value[1] = "str" ->
             IF value[2] = "12" THEN Ok(<<1, 2>>) ELSE Raise("ValueError")
      [] OTHER -> Raise("TypeError")

\* The keys the handler converts with int(), in its order.
IntKeys == <<"bri", "hue", "sat", "ct", "transitiontime">>

BadRequest == "400"

\* An exception no except clause of the handler catches: aiohttp answers 500.
ServerError == "500"

\* Lines 416-456 of the handler: the parsed dict of a decoded body, or the
\* reply of the first value that fails.  A ValueError is caught and answered
\* 400; any other exception leaves the handler.
RECURSIVE ParseInts(_, _, _)
ParseInts(json, parsed, k) ==
    IF k > Len(IntKeys)
    THEN [status |-> "ok", parsed |-> parsed]
    ELSE IF IntKeys[k] \notin DOMAIN json
    THEN ParseInts(json, parsed, k + 1)
    ELSE LET r == PyInt(json[IntKeys[k]]) IN
         IF r.err = "ValueError" THEN [status |-> BadRequest, parsed |-> parsed]
         ELSE IF r.err # "" THEN [status |-> ServerError, parsed |-> parsed]
         ELSE ParseInts(json, [parsed EXCEPT ![IntKeys[k]] = Some(r.value)],
                        k + 1)

ParseBody(json, entity) ==
    LET parsed0 == [on |-> FALSE, bri |-> <<>>, hue |-> <<>>, sat |-> <<>>,
                    ct |-> <<>>, xy |-> <<>>, transitiontime |-> <<>>]
    IN  IF "on" \in DOMAIN json /\ json["on"][1] # "bool"
        THEN [status |-> BadRequest, parsed |-> parsed0]
        ELSE LET parsed1 == [parsed0 EXCEPT !.on =
                                 IF "on" \in DOMAIN json
                                 THEN json["on"][2]
                                 ELSE _hass_to_hue_state(entity)]
                 ints == ParseInts(json, parsed1, 1)
             IN  IF ints.status # "ok" \/ "xy" \notin DOMAIN json
                 THEN ints
                 ELSE LET r == PyXy(json["xy"]) IN
                      IF r.err = "ValueError"
                      THEN [status |-> BadRequest, parsed |-> ints.parsed]
                      ELSE IF r.err # ""
                      THEN [status |-> ServerError, parsed |-> ints.parsed]
                      ELSE [status |-> "ok",
                            parsed |-> [ints.parsed EXCEPT
                                            !.xy = Some(r.value)]]

\* An interpretation that keeps the bri of every category.
InterpretBri_keeps_bri(json, parsed, entity) ==
    IF "bri" \notin DOMAIN json THEN parsed
    ELSE IF entity.domain = "light"
    THEN IF brightness_supported(entity.attributes.supported_color_modes)
         THEN [parsed EXCEPT !.on = parsed.bri[1] > 0]
         ELSE parsed
    ELSE IF entity.domain = "scene"
    THEN [parsed EXCEPT !.on = TRUE]
    ELSE IF entity.domain \in {"script", "media_player", "fan", "cover",
                               "climate", "humidifier"}
    THEN [parsed EXCEPT !.bri = Some(Round(parsed.bri[1] * 100,
                                           HUE_API_STATE_BRI_MAX)),
                        !.on = TRUE]
    ELSE parsed

\* Lines 458-481: what a supplied bri means to the entity's category.
InterpretBri(json, parsed, entity) ==
    IF "bri" \notin DOMAIN json THEN parsed
    ELSE IF entity.domain = "light"
    THEN IF brightness_supported(entity.attributes.supported_color_modes)
         THEN [parsed EXCEPT !.on = parsed.bri[1] > 0]
         ELSE [parsed EXCEPT !.bri = <<>>]
    ELSE IF entity.domain = "scene"
    THEN [parsed EXCEPT !.bri = <<>>, !.on = TRUE]
    ELSE IF entity.domain \in {"script", "media_player", "fan", "cover",
                               "climate", "humidifier"}
    THEN [parsed EXCEPT !.bri = Some(Round(parsed.bri[1] * 100,
                                           HUE_API_STATE_BRI_MAX)),
                        !.on = TRUE]
    ELSE parsed

(* ------------------------ the platform command ------------------------ *)

\* parsed[key] or 0
Truthy(value) == value # <<>> /\ value[1] # 0

\* Lines 483-593: the service the handler chooses for a parsed request, with
\* its domain and data, and whether a separate turn_on goes first.  service
\* <<>> is None: no call.
ServiceCall(entity, parsed) ==
    LET on_off == IF parsed.on THEN "turn_on" ELSE "turn_off"
        features == entity.attributes.supported_features
        color_modes == entity.attributes.supported_color_modes
        data0 == [k \in {"entity_id"} |-> entity.entity_id]
        core == [domain |-> "homeassistant", service |-> Some(on_off),
                 data |-> data0, turn_on_needed |-> FALSE]
        light1 == IF brightness_supported(color_modes) /\ parsed.bri # <<>>
                  THEN Put(data0, "brightness",
                           hue_brightness_to_hass(parsed.bri[1]))
                  ELSE data0
        light2 == IF /\ color_supported(color_modes)
                     /\ (Truthy(parsed.hue) \/ Truthy(parsed.sat))
                  THEN Put(light1, "hs_color",
                           <<(OrZero(parsed.hue) * 360)
                                 \div HUE_API_STATE_HUE_MAX,
                             (OrZero(parsed.sat) * 100)
                                 \div HUE_API_STATE_SAT_MAX>>)
                  ELSE light1
        light3 == IF color_supported(color_modes) /\ parsed.xy # <<>>
                  THEN Put(light2, "xy_color", parsed.xy[1])
                  ELSE light2
        light4 == IF color_temp_supported(color_modes) /\ parsed.ct # <<>>
                  THEN Put(light3, "color_temp_kelvin",
                           color_temperature_mired_to_kelvin(parsed.ct[1]))
                  ELSE light3
        \* transition is parsed[transitiontime] / 10, kept in tenths
        light5 == IF "TRANSITION" \in features /\ parsed.transitiontime # <<>>
                  THEN Put(light4, "transition_tenths",
                           parsed.transitiontime[1])
                  ELSE light4
        variables0 == [k \in {"requested_state"} |->
                           IF parsed.on THEN "on" ELSE "off"]
        variables == IF parsed.bri # <<>>
                     THEN Put(variables0, "requested_level", parsed.bri[1])
                     ELSE variables0
        chosen ==
            CASE entity.domain = "light" ->
                     IF parsed.on THEN [core EXCEPT !.data = light5] ELSE core
              [] entity.domain = "script" ->
                     [core EXCEPT !.data = Put(data0, "variables", variables)]
              [] entity.domain = "climate" ->
                     IF "TARGET_TEMPERATURE" \in features /\ parsed.bri # <<>>
                     THEN [domain |-> "climate",
                           service |-> Some("set_temperature"),
                           data |-> Put(data0, "temperature", parsed.bri[1]),
                           turn_on_needed |-> FALSE]
                     ELSE [core EXCEPT !.service = <<>>]
              [] entity.domain = "humidifier" ->
                     IF parsed.bri # <<>>
                     THEN [domain |-> "humidifier",
                           service |-> Some("set_humidity"),
                           data |-> Put(data0, "humidity", parsed.bri[1]),
                           turn_on_needed |-> TRUE]
                     ELSE core
              [] entity.domain = "media_player" ->
                     \* volume_level is parsed[bri] / 100.0, kept in hundredths
                     IF "VOLUME_SET" \in features /\ parsed.bri # <<>>
                     THEN [domain |-> "media_player",
                           service |-> Some("volume_set"),
                           data |-> Put(data0, "volume_level_hundredths",
                                        parsed.bri[1]),
                           turn_on_needed |-> TRUE]
                     ELSE core
              [] entity.domain = "cover" ->
                     IF "SET_POSITION" \in features /\ parsed.bri # <<>>
                     THEN [domain |-> "cover",
                           service |-> Some("set_cover_position"),
                           data |-> Put(data0, "position", parsed.bri[1]),
                           turn_on_needed |-> FALSE]
                     ELSE [core EXCEPT
                               !.domain = "cover",
                               !.service = Some(IF parsed.on
                                                THEN "open_cover"
                                                ELSE "close_cover")]
              [] /\ entity.domain = "fan"
                 /\ "SET_SPEED" \in features
                 /\ parsed.bri # <<>> ->
                     [core EXCEPT !.domain = "fan",
                                  !.data = Put(data0, "percentage",
                                               parsed.bri[1])]
              [] OTHER -> core
    IN  IF entity.domain \in OFF_MAPS_TO_ON_DOMAINS
        THEN [chosen EXCEPT !.service = Some("turn_on")]
        ELSE chosen

\* A dispatch that sets the level before the generic turn_on.
Dispatched_level_first(entity, parsed) ==
    LET c == ServiceCall(entity, parsed) IN
    (IF c.service # <<>>
     THEN <<[domain |-> c.domain, service |-> c.service[1],
             data |-> c.data]>>
     ELSE <<>>)
    \o (IF c.turn_on_needed
        THEN <<[domain |-> "homeassistant", service |-> "turn_on",
                data |-> [k \in {"entity_id"} |-> entity.entity_id]]>>
        ELSE <<>>)

\* The calls of hass.services.async_call the handler makes for a chosen
\* service, in order: the separate turn_on, then the service.
Dispatched(entity, parsed) ==
    LET c == ServiceCall(entity, parsed) IN
    (IF c.turn_on_needed
     THEN <<[domain |-> "homeassistant", service |-> "turn_on",
             data |-> [k \in {"entity_id"} |-> entity.entity_id]]>>
     ELSE <<>>)
    \o (IF c.service # <<>>
        THEN <<[domain |-> c.domain, service |-> c.service[1],
                data |-> c.data]>>
        ELSE <<>>)

\* A state_will_change that is computed when no service is called too.
state_will_change_without_service(entity, parsed) ==
    parsed.on # _hass_to_hue_state(entity)

\* Line 605, evaluated on the State object the handler read at line 390.
state_will_change(entity, parsed) ==
    /\ ServiceCall(entity, parsed).service # <<>>
    /\ parsed.on # _hass_to_hue_state(entity)

\* The keys whose success entry follows the on/off entry, in order.
SuccessKeys == <<"bri", "hue", "sat", "ct", "xy", "transitiontime">>

\* _create_hue_success_response(entity_number, attr, value)
_create_hue_success_response(entity_number, attr, value) ==
    [number |-> entity_number, attr |-> attr, value |-> value]

\* Lines 614-631: the success entries of the acknowledgement.
RECURSIVE SuccessEntries(_, _, _)
SuccessEntries(entity_number, parsed, k) ==
    IF k > Len(SuccessKeys) THEN <<>>
    ELSE (IF parsed[SuccessKeys[k]] # <<>>
          THEN <<_create_hue_success_response(entity_number, SuccessKeys[k],
                                              parsed[SuccessKeys[k]][1])>>
          ELSE <<>>)
         \o SuccessEntries(entity_number, parsed, k + 1)

json_response(entity_number, parsed) ==
    <<_create_hue_success_response(entity_number, "on", parsed.on)>>
    \o SuccessEntries(entity_number, parsed, 1)

\* A cache entry that has a deadline whatever the entity's domain.
CacheEntry_always_deadline(entity, parsed, t) ==
    [state |-> parsed, time |-> Some(t)]

\* Lines 633-637: the cache entry of an acknowledged request at time t.
CacheEntry(entity, parsed, t) ==
    [state |-> parsed,
     time |-> IF entity.domain \in OFF_MAPS_TO_ON_DOMAINS
              THEN <<>> ELSE Some(t)]

(* ---------------------------- the Hue views -------------------------- *)

_remote_is_allowed(address) == address \in LocalAddresses

\* _hue_api_error(3, ...) sent with HTTPStatus.NOT_FOUND
NotAvailable == "404 error type 3"

\* json_message("Only local IPs allowed", HTTPStatus.UNAUTHORIZED)
Unauthorized == "401"

\* self.json(...) with the default status
Success == "200"

\* HueOneLightStateView.get: GET /api/{username}/lights/{entity_id}
HueOneLightStateView_get(remote, entity_id) ==
    /\ Called
    /\ IF ~_remote_is_allowed(remote)
       THEN /\ out' = Out("GET", entity_id, Unauthorized)
            /\ UNCHANGED <<devices, cached_states>>
       ELSE IF get_device(entity_id) = <<>>
       THEN /\ out' = Out("GET", entity_id, NotAvailable)
            /\ UNCHANGED <<devices, cached_states>>
       ELSE LET device == record_access(devices[entity_id], remote)
                reply == device_to_json(device, cached_states, now)
            IN  /\ devices' = [devices EXCEPT ![entity_id] = device]
                /\ cached_states' = reply.cache
                /\ out' = Reply("GET", entity_id, Success, reply.json)
    /\ UNCHANGED <<retired_ids, next_id_counter, store, hass_states, now,
                   calls, phase, tasks, requests, deleted, found, subs>>

\* A PUT request suspended in the handler: at `await request.json()` (pc
\* "json") or in _wait_for_state_change_or_timeout (pc "wait").  entity is
\* the State object the handler read before it suspended; parsed, start and
\* ev belong to the wait.
Request(id, entity_number, entity, body) ==
    [pc |-> "json", id |-> id, entity_number |-> entity_number,
     entity_id |-> entity.entity_id, entity |-> entity, body |-> body,
     parsed |-> <<>>, start |-> 0, ev |-> FALSE]

Remove(seq, r) == SubSeq(seq, 1, r - 1) \o SubSeq(seq, r + 1, Len(seq))

\* A put that decodes the body before it asks the platform for the entity:
\* a body that is no JSON is answered 400 also when the entity is gone.
HueOneLightChangeView_put_body_first(remote, entity_number, body) ==
    /\ Called
    /\ IF ~_remote_is_allowed(remote)
       THEN /\ out' = Out("PUT", entity_number, Unauthorized)
            /\ UNCHANGED <<devices, requests>>
       ELSE IF get_device(entity_number) = <<>>
       THEN /\ out' = Out("PUT", entity_number, NotAvailable)
            /\ UNCHANGED <<devices, requests>>
       ELSE LET device == record_access(devices[entity_number], remote) IN
            /\ devices' = [devices EXCEPT ![entity_number] = device]
            /\ IF device.entity_id = NoEntity
               THEN /\ out' = Out("PUT", entity_number, NotAvailable)
                    /\ UNCHANGED requests
               ELSE IF hass_states[device.entity_id] = NoState /\ body.valid
               THEN /\ out' = Out("PUT", entity_number, NotAvailable)
                    /\ UNCHANGED requests
               ELSE IF hass_states[device.entity_id] = NoState
               THEN /\ out' = Out("PUT", entity_number, BadRequest)
                    /\ UNCHANGED requests
               ELSE /\ requests' = Append(requests,
                                      Request(ncalls + 1, entity_number,
                                              State(device.entity_id), body))
                    /\ UNCHANGED out
    /\ UNCHANGED <<retired_ids, next_id_counter, store, hass_states,
                   cached_states, now, calls, phase, tasks, deleted, found, subs>>

\* HueOneLightChangeView.put: PUT /api/{username}/lights/{n}/state, up to
\* `await request.json()`, where the request holds the entity it resolved.
HueOneLightChangeView_put(remote, entity_number, body) ==
    /\ Called
    /\ IF ~_remote_is_allowed(remote)
       THEN /\ out' = Out("PUT", entity_number, Unauthorized)
            /\ UNCHANGED <<devices, requests>>
       ELSE IF get_device(entity_number) = <<>>
       THEN /\ out' = Out("PUT", entity_number, NotAvailable)
            /\ UNCHANGED <<devices, requests>>
       ELSE LET device == record_access(devices[entity_number], remote) IN
            /\ devices' = [devices EXCEPT ![entity_number] = device]
            /\ IF device.entity_id = NoEntity
               THEN /\ out' = Out("PUT", entity_number, NotAvailable)
                    /\ UNCHANGED requests
               ELSE IF hass_states[device.entity_id] = NoState
               THEN /\ out' = Out("PUT", entity_number, NotAvailable)
                    /\ UNCHANGED requests
               ELSE /\ requests' = Append(requests,
                                      Request(ncalls + 1, entity_number,
                                              State(device.entity_id), body))
                    /\ UNCHANGED out
    /\ UNCHANGED <<retired_ids, next_id_counter, store, hass_states,
                   cached_states, now, calls, phase, tasks, deleted,
                   found, subs>>

\* An acknowledgement that keeps the echo an earlier request wrote.
Acknowledge_first_write(r, parsed) ==
    LET req == requests[r] IN
    /\ out' = Reply("PUT", req.entity_number, Success,
                    json_response(req.entity_number, parsed))
    /\ cached_states' = IF req.entity_id \in DOMAIN cached_states
                        THEN cached_states
                        ELSE Put(cached_states, req.entity_id,
                                 CacheEntry(req.entity, parsed, now))
    /\ requests' = Remove(requests, r)
    /\ found' = Put(found, req.entity_id, _hass_to_hue_state(req.entity))

\* Lines 614-639: the request at index r is acknowledged with its parsed
\* state and leaves the handler.
Acknowledge(r, parsed) ==
    LET req == requests[r] IN
    /\ out' = Reply("PUT", req.entity_number, Success,
                    json_response(req.entity_number, parsed))
    /\ cached_states' = Put(cached_states, req.entity_id,
                            CacheEntry(req.entity, parsed, now))
    /\ requests' = Remove(requests, r)
    /\ found' = Put(found, req.entity_id, _hass_to_hue_state(req.entity))

\* A handler that looks the device up again when the body has arrived and
\* answers "not available" when it is gone or linked elsewhere.
HueOneLightChangeView_put_json_resolves_again(r) ==
    LET req == requests[r]
        result == ParseBody(req.body.json, req.entity)
        parsed == InterpretBri(req.body.json, result.parsed, req.entity)
        gone == \/ req.entity_number \notin DOMAIN devices
                \/ devices[req.entity_number].entity_id # req.entity_id
    IN  /\ req.pc = "json"
        /\ now + STATE_CHANGE_TIMEOUT <= MaxTime
        /\ IF ~req.body.valid
           THEN /\ out' = Out("PUT", req.entity_number, BadRequest)
                /\ requests' = Remove(requests, r)
                /\ UNCHANGED <<calls, cached_states, found, subs>>
           ELSE IF gone
           THEN /\ out' = Out("PUT", req.entity_number, NotAvailable)
                /\ requests' = Remove(requests, r)
                /\ UNCHANGED <<calls, cached_states, found, subs>>
           ELSE IF result.status # "ok"
           THEN /\ out' = Out("PUT", req.entity_number, result.status)
                /\ requests' = Remove(requests, r)
                /\ UNCHANGED <<calls, cached_states, found, subs>>
           ELSE /\ calls' = calls \o Dispatched(req.entity, parsed)
                /\ IF state_will_change(req.entity, parsed)
                   THEN /\ requests' = [requests EXCEPT ![r] =
                                [req EXCEPT !.pc = "wait",
                                            !.parsed = Some(parsed),
                                            !.start = now,
                                            !.ev = FALSE]]
                        /\ subs' = subs \cup {req.id}
                        /\ UNCHANGED <<out, cached_states, found>>
                   ELSE Acknowledge(r, parsed) /\ UNCHANGED subs
        /\ UNCHANGED <<devices, retired_ids, next_id_counter, store,
                       hass_states, now, phase, tasks, deleted, ncalls>>

\* HueOneLightChangeView.put from `await request.json()` on: the body has
\* arrived; the handler parses it, calls the service and either enters the
\* wait for the entity's state change or acknowledges.
HueOneLightChangeView_put_json(r) ==
    LET req == requests[r]
        result == ParseBody(req.body.json, req.entity)
        parsed == InterpretBri(req.body.json, result.parsed, req.entity)
    IN  /\ req.pc = "json"
        /\ now + STATE_CHANGE_TIMEOUT <= MaxTime
        /\ IF ~req.body.valid
           THEN /\ out' = Out("PUT", req.entity_number, BadRequest)
                /\ requests' = Remove(requests, r)
                /\ UNCHANGED <<calls, cached_states, found, subs>>
           ELSE IF result.status # "ok"
           THEN /\ out' = Out("PUT", req.entity_number, result.status)
                /\ requests' = Remove(requests, r)
                /\ UNCHANGED <<calls, cached_states, found, subs>>
           ELSE /\ calls' = calls \o Dispatched(req.entity, parsed)
                /\ IF state_will_change(req.entity, parsed)
                   THEN /\ requests' = [requests EXCEPT ![r] =
                                [req EXCEPT !.pc = "wait",
                                            !.parsed = Some(parsed),
                                            !.start = now,
                                            !.ev = FALSE]]
                        /\ subs' = subs \cup {req.id}
                        /\ UNCHANGED <<out, cached_states, found>>
                   ELSE Acknowledge(r, parsed) /\ UNCHANGED subs
        /\ UNCHANGED <<devices, retired_ids, next_id_counter, store,
                       hass_states, now, phase, tasks, deleted, ncalls>>

\* A wait without asyncio.timeout: only the state-change event ends it.
_wait_for_state_change_or_timeout_event_only(r) ==
    /\ requests[r].pc = "wait"
    /\ requests[r].ev
    /\ subs' = subs \ {requests[r].id}
    /\ Acknowledge(r, requests[r].parsed[1])
    /\ UNCHANGED <<devices, retired_ids, next_id_counter, store, hass_states,
                   now, calls, phase, tasks, deleted, ncalls>>

\* A wait that returns without calling unsub().
_wait_for_state_change_or_timeout_no_unsub(r) ==
    /\ requests[r].pc = "wait"
    /\ \/ requests[r].ev
       \/ now - requests[r].start >= STATE_CHANGE_TIMEOUT
    /\ Acknowledge(r, requests[r].parsed[1])
    /\ UNCHANGED <<devices, retired_ids, next_id_counter, store, hass_states,
                   now, calls, phase, tasks, deleted, ncalls, subs>>

\* _wait_for_state_change_or_timeout returns to the handler: the entity's
\* state-change event has set ev, or asyncio.timeout(STATE_CHANGE_TIMEOUT)
\* has expired; unsub() removes the listener in the finally clause, and the
\* handler acknowledges.
_wait_for_state_change_or_timeout(r) ==
    /\ requests[r].pc = "wait"
    /\ \/ requests[r].ev
       \/ now - requests[r].start >= STATE_CHANGE_TIMEOUT
    /\ subs' = subs \ {requests[r].id}
    /\ Acknowledge(r, requests[r].parsed[1])
    /\ UNCHANGED <<devices, retired_ids, next_id_counter, store, hass_states,
                   now, calls, phase, tasks, deleted, ncalls>>

\* The state an entity of the platform changes to: a scene's state is the
\* time it was last activated, a cover opens and closes, any other entity
\* here goes on or off.
NextState(state) ==
    CASE state = "on" -> "off"
      [] state = "off" -> "on"
      [] state = "open" -> "closed"
      [] state = "closed" -> "open"
      [] state = "t1" -> "t2"
      [] OTHER -> "t1"

\* The platform changes an entity's state and fires its state-change event:
\* the callback _async_event_changed of every listener for the entity sets
\* the ev of its request.
_async_event_changed(entity_id) ==
    /\ hass_states[entity_id] # NoState
    /\ hass_states' = [hass_states EXCEPT ![entity_id] = NextState(@)]
    /\ requests' = [r \in DOMAIN requests |->
                        IF requests[r].id \in subs
                           /\ requests[r].entity_id = entity_id
                        THEN [requests[r] EXCEPT !.ev = TRUE]
                        ELSE requests[r]]
    /\ UNCHANGED <<devices, retired_ids, next_id_counter, store,
                   cached_states, now, calls, phase, tasks, out,
                   deleted, ncalls, found, subs>>

\* The platform removes an entity from its state machine.  The removal is a
\* state-change event too, with no new state.
_async_event_removed(entity_id) ==
    /\ hass_states[entity_id] # NoState
    /\ hass_states' = [hass_states EXCEPT ![entity_id] = NoState]
    /\ requests' = [r \in DOMAIN requests |->
                        IF requests[r].id \in subs
                           /\ requests[r].entity_id = entity_id
                        THEN [requests[r] EXCEPT !.ev = TRUE]
                        ELSE requests[r]]
    /\ UNCHANGED <<devices, retired_ids, next_id_counter, store,
                   cached_states, now, calls, phase, tasks, out,
                   deleted, ncalls, found, subs>>

\* time.time() advances by one unit.  A timeout that is due expires before
\* the clock moves on.
Tick ==
    /\ now < MaxTime
    /\ \A r \in DOMAIN requests :
           requests[r].pc = "wait" =>
               now - requests[r].start < STATE_CHANGE_TIMEOUT
    /\ now' = now + 1
    /\ UNCHANGED <<devices, retired_ids, next_id_counter, store, hass_states,
                   cached_states, calls, phase, tasks, requests, out, deleted,
                   found, subs, ncalls>>

(* ------------------------ the other Hue views ------------------------- *)

\* const.py: the only username the bridge hands out
HUE_API_USERNAME == "nouser"

\* Usernames a client may put in the path.
Usernames == {"nouser", "other"}

\* UNAUTHORIZED_USER: the Hue error of type 1, sent with the default status
UNAUTHORIZED_USER ==
    [error |-> [address |-> "/", description |-> "unauthorized user",
                type |-> 1]]

\* _create_config_model(request)
_create_config_model ==
    [name |-> "HASS BRIDGE", whitelist |-> {HUE_API_USERNAME},
     linkbutton |-> TRUE]

\* A pass that lists the device whether it is linked or not.
ListEntity_all_devices(device, list, t) ==
    CHOOSE next \in
        {[result |-> Put(list.result, device.hue_id, reply.json),
          cache |-> reply.cache] :
             reply \in {device_to_json(device, list.cache, t)}} : TRUE

\* One pass of the loop of _create_list_of_entities: list is the result dict
\* and the cache so far.  The set of one element binds the value that
\* device_to_json returns.
ListEntity(device, list, t) ==
    IF is_linked(device)
    THEN CHOOSE next \in
             {[result |-> Put(list.result, device.hue_id, reply.json),
               cache |-> reply.cache] :
                  reply \in {device_to_json(device, list.cache, t)}} : TRUE
    ELSE list

\* The loop of _create_list_of_entities over the devices ids, in the order
\* of the registry's dict.  The set of one element binds the outcome of a
\* pass before the next pass starts.
RECURSIVE ListEntities(_, _, _)
ListEntities(ids, list, t) ==
    IF ids = {} THEN list
    ELSE LET i == CHOOSE x \in ids : \A y \in ids : x <= y IN
         CHOOSE all \in {ListEntities(ids \ {i}, next, t) :
                             next \in {ListEntity(devices[i], list, t)}} :
             TRUE

\* _create_list_of_entities(request) at time t: the light resources by
\* device id, and the cache the call leaves.
_create_list_of_entities(cache, t) ==
    ListEntities(DOMAIN devices, [result |-> <<>>, cache |-> cache], t)

\* The bodies of a POST /api: none that decodes, one without devicetype and
\* one with it.
Pairings == {Undecodable, Object(EmptyJson),
             Object([k \in {"devicetype"} |-> JStr("app")])}

\* HueUsernameView.post: POST /api
HueUsernameView_post(remote, body) ==
    /\ Called
    /\ out' = IF ~_remote_is_allowed(remote)
              THEN Out("POST api", NoId, Unauthorized)
              ELSE IF ~body.valid
              THEN Out("POST api", NoId, BadRequest)
              ELSE IF "devicetype" \notin DOMAIN body.json
              THEN Out("POST api", NoId, BadRequest)
              ELSE Reply("POST api", NoId, Success,
                         [success |-> [username |-> HUE_API_USERNAME]])
    /\ UNCHANGED <<devices, retired_ids, next_id_counter, store, hass_states,
                   cached_states, now, calls, phase, tasks, requests,
                   deleted, found, subs>>

\* HueUnauthorizedUser.get: GET /api
HueUnauthorizedUser_get(remote) ==
    /\ Called
    /\ out' = Reply("GET api", NoId, Success, UNAUTHORIZED_USER)
    /\ UNCHANGED <<devices, retired_ids, next_id_counter, store, hass_states,
                   cached_states, now, calls, phase, tasks, requests,
                   deleted, found, subs>>

\* HueConfigView.get: GET /api/{username}/config
HueConfigView_get(remote) ==
    /\ Called
    /\ out' = IF ~_remote_is_allowed(remote)
              THEN Out("GET config", NoId, Unauthorized)
              ELSE Reply("GET config", NoId, Success, _create_config_model)
    /\ UNCHANGED <<devices, retired_ids, next_id_counter, store, hass_states,
                   cached_states, now, calls, phase, tasks, requests,
                   deleted, found, subs>>

\* HueAllLightsStateView.get: GET /api/{username}/lights
HueAllLightsStateView_get(remote) ==
    /\ Called
    /\ IF ~_remote_is_allowed(remote)
       THEN /\ out' = Out("GET lights", NoId, Unauthorized)
            /\ UNCHANGED cached_states
       ELSE \E list \in {_create_list_of_entities(cached_states, now)} :
                /\ out' = Reply("GET lights", NoId, Success, list.result)
                /\ cached_states' = list.cache
    /\ UNCHANGED <<devices, retired_ids, next_id_counter, store, hass_states,
                   now, calls, phase, tasks, requests, deleted, found, subs>>

\* HueFullStateView.get: GET /api/{username}
HueFullStateView_get(remote, username) ==
    /\ Called
    /\ IF ~_remote_is_allowed(remote)
       THEN /\ out' = Out("GET full", NoId, Unauthorized)
            /\ UNCHANGED cached_states
       ELSE IF username # HUE_API_USERNAME
       THEN /\ out' = Reply("GET full", NoId, Success, UNAUTHORIZED_USER)
            /\ UNCHANGED cached_states
       ELSE \E list \in {_create_list_of_entities(cached_states, now)} :
                /\ out' = Reply("GET full", NoId, Success,
                                [lights |-> list.result,
                                 config |-> _create_config_model])
                /\ cached_states' = list.cache
    /\ UNCHANGED <<devices, retired_ids, next_id_counter, store, hass_states,
                   now, calls, phase, tasks, requests, deleted, found, subs>>

\* HueAllGroupsStateView.get: GET /api/{username}/groups
HueAllGroupsStateView_get(remote) ==
    /\ Called
    /\ out' = IF ~_remote_is_allowed(remote)
              THEN Out("GET groups", NoId, Unauthorized)
              ELSE Reply("GET groups", NoId, Success, EmptyJson)
    /\ UNCHANGED <<devices, retired_ids, next_id_counter, store, hass_states,
                   cached_states, now, calls, phase, tasks, requests,
                   deleted, found, subs>>

\* HueGroupView.put: PUT /api/{username}/groups/0/action
HueGroupView_put(remote) ==
    /\ Called
    /\ out' = IF ~_remote_is_allowed(remote)
              THEN Out("PUT groups", NoId, Unauthorized)
              ELSE Reply("PUT groups", NoId, Success,
                         [error |-> [address |-> "/groups/0/action/scene",
                                     description |->
                                         "invalid value, dummy for parameter, scene",
                                     type |-> 7]])
    /\ UNCHANGED <<devices, retired_ids, next_id_counter, store, hass_states,
                   cached_states, now, calls, phase, tasks, requests,
                   deleted, found, subs>>

(* --------------------------- specifications --------------------------- *)

Setup == \E ok \in BOOLEAN : async_setup(ok)

Create == \E name \in Names, e \in EntityIds \cup {NoEntity} :
              async_create_hue_device(name, e)

Delete == \E i \in HueIds : async_delete_hue_device(i)

\* An update that renames and leaves the link alone.
Rename == \E i \in HueIds, name \in NewNames :
              async_update_hue_device(i, name, UNSET)

\* An update that leaves the name alone.
Relink == \E i \in HueIds, e \in EntityIds \cup {NoEntity, UNSET} :
              async_update_hue_device(i, None, e)

\* The Store writes the document.
SaveDone == \E t \in Tasks : _save_data(t, TRUE)

\* The Store writes the document, or fails to.
SaveEnds == \E t \in Tasks, ok \in BOOLEAN : _save_data(t, ok)

Reload == async_reload

LoadEnds == \E t \in Tasks, ok \in BOOLEAN : _load_data(t, ok)

GetLight == \E remote \in Clients, i \in HueIds :
                HueOneLightStateView_get(remote, i)

PutLight == \E remote \in Clients, i \in HueIds :
                HueOneLightChangeView_put(remote, i, Object(Off))

\* The registry under create, delete and the updates of a device's link, and
\* the views that look a light up in it.  Nothing reads the Store after
\* async_setup here, so whether a write to it fails changes nothing a call
\* or a request can see: the writes succeed.
Next == \/ Setup \/ Create \/ Delete \/ Relink \/ SaveDone
        \/ GetLight \/ PutLight

Spec == Init /\ [][Next]_vars

\* The registry and its persistence under create, delete and rename: every
\* write to the Store and every load from it may fail, and the reload
\* service saves and loads again.
NextReload == \/ Setup \/ Create \/ Delete \/ Rename \/ SaveEnds
              \/ Reload \/ LoadEnds

SpecReload == Init /\ [][NextReload]_vars

\* The bridge set up from a Store that holds a dimmable light, a script and
\* a climate entity that heats, with the light on or off.
InitApi ==
    /\ devices = (1 :> HueDevice(1, "Lamp", <<"light", "a">>, "light"))
                 @@ (2 :> HueDevice(2, "Lamp", <<"script", "s">>, "script"))
                 @@ (3 :> HueDevice(3, "Lamp", <<"climate", "k">>, "climate"))
    /\ retired_ids = {}
    /\ next_id_counter = 4
    /\ store = <<SaveData(devices, retired_ids, next_id_counter)>>
    /\ \E s \in {"on", "off"} :
           hass_states = [e \in AllEntityIds |->
                              IF e = <<"light", "a">> THEN s
                              ELSE IF e = <<"light", "gone">> THEN NoState
                              ELSE IF e[1] = "scene" THEN "t1"
                              ELSE IF e[1] = "climate" THEN "heat"
                              ELSE "off"]
    /\ phase = "running"
    /\ tasks = [t \in Tasks |-> Idle]
    /\ requests = <<>>
    /\ cached_states = <<>>
    /\ now = 0
    /\ calls = <<>>
    /\ out = Out("init", NoId, "none")
    /\ deleted = {}
    /\ found = <<>>
    /\ subs = {}
    /\ ncalls = 0

\* The devices of InitApi.
ApiIds == {1, 2, 3}

GetApi == /\ ncalls < MaxRequests
          /\ \E i \in ApiIds : HueOneLightStateView_get("192.168.1.20", i)

PutApi == /\ ncalls < MaxRequests
          /\ \E i \in ApiIds, json \in {Off, On} :
                 HueOneLightChangeView_put("192.168.1.20", i, Object(json))

PutJson == \E r \in DOMAIN requests : HueOneLightChangeView_put_json(r)

WaitEnds == \E r \in DOMAIN requests : _wait_for_state_change_or_timeout(r)

\* The light goes on or off: a command of the bridge takes effect, or
\* somebody switches the light by other means.
StateChanged == _async_event_changed(<<"light", "a">>)

\* The bridge set up from a Store that holds the light, which is on, and the
\* script.
InitBusy ==
    /\ devices = (1 :> HueDevice(1, "Lamp", <<"light", "a">>, "light"))
                 @@ (2 :> HueDevice(2, "Lamp", <<"script", "s">>, "script"))
    /\ retired_ids = {}
    /\ next_id_counter = 3
    /\ store = <<SaveData(devices, retired_ids, next_id_counter)>>
    /\ hass_states = [e \in AllEntityIds |->
                          IF e = <<"light", "a">> THEN "on"
                          ELSE IF e = <<"light", "gone">> THEN NoState
                          ELSE IF e[1] = "scene" THEN "t1"
                          ELSE "off"]
    /\ phase = "running"
    /\ tasks = [t \in Tasks |-> Idle]
    /\ requests = <<>>
    /\ cached_states = <<>>
    /\ now = 0
    /\ calls = <<>>
    /\ out = Out("init", NoId, "none")
    /\ deleted = {}
    /\ found = <<>>
    /\ subs = {}
    /\ ncalls = 0

\* The devices of InitBusy.
BusyIds == {1, 2}

GetBusy == \E i \in BusyIds : HueOneLightStateView_get("192.168.1.20", i)

PutBusy == \E i \in BusyIds :
               HueOneLightChangeView_put("192.168.1.20", i, Object(Off))

CreateBusy == async_create_hue_device("Lamp", NoEntity)

DeleteBusy == \E i \in BusyIds : async_delete_hue_device(i)

UnlinkBusy == \E i \in BusyIds : async_update_hue_device(i, None, NoEntity)

\* The registry operations and the Hue requests of a local client, side by
\* side, at one reading of the clock: a wait ends by the state-change event.
NextBusy == \/ GetBusy \/ PutBusy \/ PutJson \/ WaitEnds \/ StateChanged
            \/ CreateBusy \/ DeleteBusy \/ UnlinkBusy \/ SaveDone

SpecBusy == InitBusy /\ [][NextBusy]_vars

\* The bridge set up from a Store that holds the dimmable light, a light
\* that switches on and off only, the scene, the script, a device that is
\* not linked and a device whose entity the platform has no more.
InitPut ==
    /\ devices = (1 :> HueDevice(1, "Lamp", <<"light", "a">>, "light"))
                 @@ (2 :> HueDevice(2, "Lamp", <<"light", "p">>, "light"))
                 @@ (3 :> HueDevice(3, "Lamp", <<"scene", "n">>, "scene"))
                 @@ (4 :> HueDevice(4, "Lamp", <<"script", "s">>, "script"))
                 @@ (5 :> HueDevice(5, "Lamp", NoEntity, "light"))
                 @@ (6 :> HueDevice(6, "Lamp", <<"light", "gone">>, "light"))
    /\ retired_ids = {}
    /\ next_id_counter = 7
    /\ store = <<SaveData(devices, retired_ids, next_id_counter)>>
    /\ hass_states = [e \in AllEntityIds |->
                          IF e = <<"light", "gone">> THEN NoState
                          ELSE IF e[1] = "scene" THEN "t1"
                          ELSE IF e = <<"light", "a">> THEN "on"
                          ELSE "off"]
    /\ phase = "running"
    /\ tasks = [t \in Tasks |-> Idle]
    /\ requests = <<>>
    /\ cached_states = <<>>
    /\ now = 0
    /\ calls = <<>>
    /\ out = Out("init", NoId, "none")
    /\ deleted = {}
    /\ found = <<>>
    /\ subs = {}
    /\ ncalls = 0

\* The IDs a PUT names: the devices of InitPut and an ID of no device.
PutIds == 1..7

\* The bodies a PUT carries: objects the handler accepts, objects with a
\* value of the wrong type, and a body that is no JSON.
Bodies ==
    { Object(EmptyJson),
      Object(Off),
      Object(On),
      Object(Bri(100)),
      Object(Bri(0)),
      Object(Off @@ Bri(100)),
      Object("bri" :> JStr("12")),
      Object("xy" :> JList(<<JInt(1), JInt(2)>>)),
      Object(("hue" :> JInt(100)) @@ ("sat" :> JInt(50))
             @@ ("ct" :> JInt(200)) @@ ("transitiontime" :> JInt(4))),
      Object("on" :> JStr("yes")),
      Object("bri" :> JStr("abc")),
      Object("bri" :> JNull),
      Object("hue" :> JList(<<JInt(1)>>)),
      Object("xy" :> JNull),
      Object("xy" :> JList(<<JInt(1)>>)),
      Object("xy" :> JList(<<JStr("abc"), JInt(1)>>)),
      Undecodable }

PutPut == /\ ncalls < MaxWaits
          /\ \E remote \in Clients, i \in PutIds, body \in Bodies :
                 HueOneLightChangeView_put(remote, i, body)

\* The PUT requests of a client against devices of every kind and with
\* bodies of every kind, the platform's entities at rest.
NextPut == \/ PutPut \/ PutJson \/ WaitEnds \/ Tick

SpecPut == InitPut /\ [][NextPut]_vars

\* The bridge set up from a Store that holds a script and a scene.
InitEcho ==
    /\ devices = (1 :> HueDevice(1, "Lamp", <<"script", "s">>, "script"))
                 @@ (2 :> HueDevice(2, "Lamp", <<"scene", "n">>, "scene"))
    /\ retired_ids = {}
    /\ next_id_counter = 3
    /\ store = <<SaveData(devices, retired_ids, next_id_counter)>>
    /\ hass_states = [e \in AllEntityIds |->
                          IF e = <<"light", "gone">> THEN NoState
                          ELSE IF e[1] = "scene" THEN "t1"
                          ELSE "off"]
    /\ phase = "running"
    /\ tasks = [t \in Tasks |-> Idle]
    /\ requests = <<>>
    /\ cached_states = <<>>
    /\ now = 0
    /\ calls = <<>>
    /\ out = Out("init", NoId, "none")
    /\ deleted = {}
    /\ found = <<>>
    /\ subs = {}
    /\ ncalls = 0

\* The devices of InitEcho.
EchoIds == {1, 2}

GetEcho == /\ ncalls < MaxRequests
           /\ \E i \in EchoIds : HueOneLightStateView_get("192.168.1.20", i)

PutEcho == /\ ncalls < MaxRequests
           /\ \E i \in EchoIds, json \in {Off, On, Bri(100)} :
                  HueOneLightChangeView_put("192.168.1.20", i, Object(json))

\* The script starts to run, or ends.
Activated == _async_event_changed(<<"script", "s">>)

\* The Hue requests of a local client against a script and a scene, with the
\* clock and the echo cache.
NextEcho == \/ GetEcho \/ PutEcho \/ PutJson \/ WaitEnds \/ Activated
            \/ Tick

SpecEcho == InitEcho /\ [][NextEcho]_vars

\* The Hue requests of a local client against a light whose state changes,
\* a script and a climate entity, with the clock and the echo cache.
NextApi == \/ GetApi \/ PutApi \/ PutJson \/ WaitEnds \/ StateChanged
           \/ Tick

SpecApi == InitApi /\ [][NextApi]_vars

PutWait == /\ ncalls < MaxWaits
           /\ \E json \in {Off, On} :
                  HueOneLightChangeView_put("192.168.1.20", 1, Object(json))

\* The PUT requests of a local client against the light, under the
\* scheduling of the event loop: the clock goes on, and a coroutine whose
\* event is set or whose timeout has expired is resumed.
NextWait == \/ PutWait \/ PutJson \/ WaitEnds \/ StateChanged \/ Tick

SpecWait == InitApi /\ [][NextWait]_vars /\ WF_vars(Tick) /\ WF_vars(WaitEnds)

\* Every view of the bridge called from a local and from a foreign address,
\* over the registry of InitBusy, while the light changes.
PostViews == \E remote \in Clients, body \in Pairings :
                 HueUsernameView_post(remote, body)

GetApiViews == \E remote \in Clients : HueUnauthorizedUser_get(remote)

GetConfigViews == \E remote \in Clients : HueConfigView_get(remote)

GetLightsViews == \E remote \in Clients : HueAllLightsStateView_get(remote)

GetFullViews == \E remote \in Clients, username \in Usernames :
                    HueFullStateView_get(remote, username)

GetGroupsViews == \E remote \in Clients : HueAllGroupsStateView_get(remote)

PutGroupViews == \E remote \in Clients : HueGroupView_put(remote)

GetViews == \E remote \in Clients, i \in BusyIds :
                HueOneLightStateView_get(remote, i)

PutViews == \E remote \in Clients, i \in BusyIds, json \in {Off, On} :
                HueOneLightChangeView_put(remote, i, Object(json))

NextViews == \/ PostViews \/ GetApiViews \/ GetConfigViews \/ GetLightsViews
             \/ GetFullViews \/ GetGroupsViews \/ PutGroupViews
             \/ GetViews \/ PutViews \/ PutJson \/ WaitEnds \/ StateChanged

SpecViews == InitBusy /\ [][NextViews]_vars

\* The lights list and the single light read by a local client while devices
\* are created, deleted, linked and unlinked, the light is switched by a PUT
\* and the platform loses the light.
GetLightsList == HueAllLightsStateView_get("192.168.1.20")

GetList == \E i \in HueIds : HueOneLightStateView_get("192.168.1.20", i)

PutList == HueOneLightChangeView_put("192.168.1.20", 1, Object(Off))

CreateList == \E e \in {<<"switch", "b">>, NoEntity} :
                  async_create_hue_device("Lamp", e)

DeleteList == \E i \in HueIds : async_delete_hue_device(i)

RelinkList == \E i \in HueIds, e \in {<<"switch", "b">>, NoEntity} :
                  async_update_hue_device(i, None, e)

Removed == _async_event_removed(<<"light", "a">>)

NextList == \/ GetLightsList \/ GetList \/ PutList \/ PutJson \/ WaitEnds
            \/ CreateList \/ DeleteList \/ RelinkList \/ SaveDone \/ Removed

SpecList == InitBusy /\ [][NextList]_vars

\* The entities whose light type the bridge reports.
ClassifiedEntityIds ==
    TypedEntityIds \cup {<<"light", "a">>, <<"light", "p">>,
                         <<"switch", "b">>, <<"script", "s">>,
                         <<"scene", "n">>, <<"climate", "k">>}

\* The bridge set up from a Store that holds one device, linked to any one
\* of the entities, which is on or off (a cover open or closed).
InitClassify ==
    /\ \E e \in ClassifiedEntityIds :
           devices = (1 :> HueDevice(1, "Lamp", e, e[1]))
    /\ retired_ids = {}
    /\ next_id_counter = 2
    /\ store = <<SaveData(devices, retired_ids, next_id_counter)>>
    /\ \E is_on \in BOOLEAN :
           hass_states = [e \in AllEntityIds \cup TypedEntityIds |->
                              IF e = <<"light", "gone">> THEN NoState
                              ELSE IF e[1] = "scene" THEN "t1"
                              ELSE IF e[1] = "cover"
                              THEN (IF is_on THEN "open" ELSE "closed")
                              ELSE IF is_on THEN "on" ELSE "off"]
    /\ phase = "running"
    /\ tasks = [t \in Tasks |-> Idle]
    /\ requests = <<>>
    /\ cached_states = <<>>
    /\ now = 0
    /\ calls = <<>>
    /\ out = Out("init", NoId, "none")
    /\ deleted = {}
    /\ found = <<>>
    /\ subs = {}
    /\ ncalls = 0

GetClassify == /\ ncalls < MaxRequests
               /\ HueOneLightStateView_get("192.168.1.20", 1)

GetLightsClassify == /\ ncalls < MaxRequests
                     /\ HueAllLightsStateView_get("192.168.1.20")

PutClassify == /\ ncalls < MaxWaits
               /\ \E json \in {Off, On, Bri(100)} :
                      HueOneLightChangeView_put("192.168.1.20", 1,
                                                Object(json))

\* The device's entity changes its state.
ChangedClassify == _async_event_changed(devices[1].entity_id)

\* The light types the bridge reports for the entities of every category,
\* on and off, with and without an echo of a command in the cache, at one
\* reading of the clock: a wait ends by the state-change event.
NextClassify == \/ GetClassify \/ GetLightsClassify \/ PutClassify
                \/ PutJson \/ WaitEnds \/ ChangedClassify

SpecClassify == InitClassify /\ [][NextClassify]_vars

(* --------------------------- the conversions -------------------------- *)

\* The values of the platform's brightness attribute, of a Hue bri and of a
\* Hue ct.
PlatformBrightness == 0..255

HueBrightness == HUE_API_STATE_BRI_MIN..HUE_API_STATE_BRI_MAX

HueCt == HUE_API_STATE_CT_MIN..HUE_API_STATE_CT_MAX

\* The State object of a light with colour and colour temperature in the
\* state, at the brightness and at the colour temperature given.
Lamp(state, brightness, kelvin) ==
    [entity_id |-> <<"light", "ext">>,
     domain |-> "light",
     state |-> state,
     attributes |-> [attributes(<<"light", "ext">>) EXCEPT
                         !.brightness = Some(brightness),
                         !.color_temp_kelvin = Some(kelvin)]]

\* The data of the service call the handler chooses for the body json sent
\* to the lamp.
DataOf(json) ==
    LET entity == Lamp("on", 128, 4000)
        parsed == InterpretBri(json, ParseBody(json, entity).parsed, entity)
    IN  ServiceCall(entity, parsed).data

\* A value under conversion: the scale it is on, the value the conversions
\* started from (id) and the value now (body).
Value(op, input, scale, value) ==
    [op |-> op, id |-> input, result |-> scale, body |-> <<value>>]

\* The conversions start from a brightness of the platform, of a lamp that
\* is on ("brightness") or off ("off"), from a Hue bri or from a Hue ct.
InitConvert ==
    /\ devices = <<>>
    /\ retired_ids = {}
    /\ next_id_counter = 1
    /\ store = <<SaveData(devices, retired_ids, next_id_counter)>>
    /\ hass_states = [e \in AllEntityIds |->
                          IF e \in PlatformEntities THEN "on" ELSE NoState]
    /\ phase = "running"
    /\ tasks = [t \in Tasks |-> Idle]
    /\ requests = <<>>
    /\ cached_states = <<>>
    /\ now = 0
    /\ calls = <<>>
    /\ \/ \E b \in PlatformBrightness, op \in {"brightness", "off"} :
              out = Value(op, b, "platform", b)
       \/ \E h \in HueBrightness : out = Value("bri", h, "hue", h)
       \/ \E m \in HueCt : out = Value("ct", m, "mired", m)
    /\ deleted = {}
    /\ found = <<>>
    /\ subs = {}
    /\ ncalls = 0

\* _build_entity_state_dict reports the brightness of the lamp as a Hue bri.
ReportBrightness ==
    /\ Called
    /\ out.op \in {"brightness", "off", "bri"}
    /\ out.result = "platform"
    /\ out' = [out EXCEPT
                   !.result = "hue",
                   !.body = _build_entity_state_dict(
                                Lamp(IF out.op = "off" THEN "off" ELSE "on",
                                     out.body[1], 4000)).bri]
    /\ UNCHANGED <<devices, retired_ids, next_id_counter, store, hass_states,
                   cached_states, now, calls, phase, tasks, requests,
                   deleted, found, subs>>

\* The handler of a PUT converts the bri of the body {"on": true, "bri": h}
\* to the brightness of light.turn_on.
DispatchBrightness ==
    /\ Called
    /\ out.op \in {"brightness", "bri"}
    /\ out.result = "hue"
    /\ "brightness" \in DOMAIN DataOf(On @@ Bri(out.body[1]))
    /\ out' = [out EXCEPT
                   !.result = "platform",
                   !.body = <<DataOf(On @@ Bri(out.body[1]))["brightness"]>>]
    /\ UNCHANGED <<devices, retired_ids, next_id_counter, store, hass_states,
                   cached_states, now, calls, phase, tasks, requests,
                   deleted, found, subs>>

\* The handler of a PUT converts the ct of the body {"on": true, "ct": m} to
\* the color_temp_kelvin of light.turn_on.
DispatchCt ==
    /\ Called
    /\ out.op = "ct"
    /\ out.result = "mired"
    /\ out' = [out EXCEPT
                   !.result = "kelvin",
                   !.body = <<DataOf(On @@ ("ct" :> JInt(out.body[1])))
                                  ["color_temp_kelvin"]>>]
    /\ UNCHANGED <<devices, retired_ids, next_id_counter, store, hass_states,
                   cached_states, now, calls, phase, tasks, requests,
                   deleted, found, subs>>

\* _build_entity_state_dict reports the colour temperature of the lamp as a
\* Hue ct.
ReportCt ==
    /\ Called
    /\ out.op = "ct"
    /\ out.result = "kelvin"
    /\ out' = [out EXCEPT
                   !.result = "mired",
                   !.body = _build_entity_state_dict(
                                Lamp("on", 128, out.body[1])).ct]
    /\ UNCHANGED <<devices, retired_ids, next_id_counter, store, hass_states,
                   cached_states, now, calls, phase, tasks, requests,
                   deleted, found, subs>>

\* A value is reported to the Hue client and sent back by it, over and over.
NextConvert == \/ ReportBrightness \/ DispatchBrightness
               \/ DispatchCt \/ ReportCt

SpecConvert == InitConvert /\ [][NextConvert]_vars

PutOverlap == \E i \in BusyIds, json \in {Off, On} :
                  HueOneLightChangeView_put("192.168.1.20", i, Object(json))

\* PUT requests of a local client to the light and the script that overlap:
\* each waits for its state change while others are dispatched, at one
\* reading of the clock: a wait ends by the state-change event.
NextOverlap == \/ PutOverlap \/ PutJson \/ WaitEnds \/ StateChanged

SpecOverlap == InitBusy /\ [][NextOverlap]_vars

\* The bodies of the PUT requests to the entities of every category: with
\* and without on, with and without bri, and with a bri that contradicts on.
CategoryBodies ==
    { EmptyJson,
      ("hue" :> JInt(100)) @@ ("sat" :> JInt(50)),
      Off,
      On,
      Bri(100),
      Bri(0),
      Off @@ Bri(100),
      On @@ Bri(0) }

PutCategory == /\ ncalls < MaxWaits
               /\ \E json \in CategoryBodies :
                      HueOneLightChangeView_put("192.168.1.20", 1,
                                                Object(json))

\* The PUT requests of a local client to one device linked to an entity of
\* any category, which is on or off and can change while a request is
\* read or waits, at one reading of the clock.
NextCategory == \/ PutCategory \/ PutJson \/ WaitEnds \/ ChangedClassify

SpecCategory == InitClassify /\ [][NextCategory]_vars

\* Bodies whose values lie above and below the Hue bounds, with and without
\* the fields the cache defaults.
BoundsBodies ==
    { ("bri" :> JInt(1000)) @@ ("hue" :> JInt(70000))
          @@ ("sat" :> JInt(300)) @@ ("ct" :> JInt(1000)),
      ("bri" :> JInt(-5)) @@ ("hue" :> JInt(-1))
          @@ ("sat" :> JInt(-1)) @@ ("ct" :> JInt(0)),
      On @@ ("hue" :> JInt(70000)) @@ ("sat" :> JInt(100)),
      Off @@ ("ct" :> JInt(100)),
      On,
      Off }

PutBounds == /\ ncalls < MaxWaits
             /\ \E json \in BoundsBodies :
                    HueOneLightChangeView_put("192.168.1.20", 1,
                                              Object(json))

\* The states the bridge reports for one device linked to an entity of any
\* category, read from the platform or from the echo of a PUT whose values
\* are out of range, at one reading of the clock.
NextBounds == \/ PutBounds \/ PutJson \/ WaitEnds \/ ChangedClassify
              \/ GetClassify \/ GetLightsClassify

SpecBounds == InitClassify /\ [][NextBounds]_vars

\* The entities an update asks for: the light, an entity of a domain that is
\* not supported, one the platform does not know, and none.
RejectEntityIds ==
    {<<"light", "a">>, <<"sensor", "c">>, <<"light", "gone">>, UNSET}

Update == \E i \in HueIds, name \in NewNames \cup {None},
             e \in RejectEntityIds :
              async_update_hue_device(i, name, e)

\* Creates, and updates that give a name, a link or both, so that an update
\* can fail its validation with a name to apply.
NextReject == \/ Setup \/ Create \/ Update \/ SaveDone

SpecReject == Init /\ [][NextReject]_vars

GetRead == HueOneLightStateView_get("192.168.1.20", 1)

\* Reads of one device linked to an entity of any category, before and
\* after a PUT whose values are out of range or missing, at one reading of
\* the clock.
NextRead == \/ PutBounds \/ PutJson \/ WaitEnds \/ ChangedClassify
            \/ GetRead

SpecRead == InitClassify /\ [][NextRead]_vars

(* ------------------------------ properties ---------------------------- *)

AllIdle == \A t \in Tasks : tasks[t].pc = "idle"

ValueErrors == {"ValueError: not valid", "ValueError: linked"}

\* The devices other than hue_id that link entity_id.
OtherLinks(hue_id, entity_id) ==
    {i \in (DOMAIN devices) \ {hue_id} : devices[i].entity_id = entity_id}

\* C1: the Hue ID a create hands to its new device is, at that moment, no
\* active device's ID, is not in the retired set, and was never retired by a
\* delete before.
C1_CreateNeverReusesId ==
    [][\A name \in Names, e \in EntityIds \cup {NoEntity} :
          (async_create_hue_device(name, e) /\ tasks' # tasks) =>
              LET hue_id == tasks'[FreeTask].id
              IN  /\ hue_id \in DOMAIN devices'
                  /\ hue_id \notin DOMAIN devices
                  /\ hue_id \notin retired_ids
                  /\ hue_id \notin deleted]_vars

\* C1 happens: a create is under way whose registry snapshot already holds an
\* ID a delete retired, so the create came after that delete.
C1_Witness ==
    \E t \in Tasks :
        /\ tasks[t].op = "create"
        /\ tasks[t].pc = "save"
        /\ tasks[t].data[1].retired_ids \cap deleted # {}

\* C2: a GET or a PUT from a local address that names a deleted device's ID
\* is answered "resource not available" (404, error type 3), whatever was
\* created since; and no deleted ID is ever the ID of an active device.
C2_DeletedIdNotAvailable ==
    /\ [](\A i \in deleted : i \notin DOMAIN devices)
    /\ [][\A remote \in LocalAddresses, i \in deleted :
             /\ HueOneLightStateView_get(remote, i) =>
                    out' = Out("GET", i, NotAvailable)
             /\ HueOneLightChangeView_put(remote, i, Object(Off)) =>
                    out' = Out("PUT", i, NotAvailable)]_vars

\* C2 happens: every call has returned, the last one a GET of a deleted ID
\* answered "not available", and a device with a later ID is active.
C2_Witness ==
    /\ AllIdle
    /\ \E i \in deleted :
          /\ out = Out("GET", i, NotAvailable)
          /\ \E j \in DOMAIN devices : j > i

\* C3: no two active devices link the same entity, in every state the
\* registry goes through, calls suspended in their save included.
C3_EntityLinkedOnce ==
    \A i, j \in DOMAIN devices :
        (i # j /\ is_linked(devices[i])) =>
            devices[i].entity_id # devices[j].entity_id

\* C3 happens: two active devices are linked, a call is suspended in its
\* save, and the last call to return was refused an entity already linked.
C3_Witness ==
    /\ Cardinality({i \in DOMAIN devices : is_linked(devices[i])}) >= 2
    /\ \E t \in Tasks : tasks[t].pc = "save"
    /\ out.result = "ValueError: linked"

\* C4: while an active device links entity E, a create with E and an update
\* of another device to E raise a validation error and change no device;
\* when no other device links E (it was never linked, or was unlinked, or
\* its device was deleted) and E is valid, the create and the update link E.
C4_LinkOnlyWhenFree ==
    [][/\ \A name \in Names, e \in EntityIds :
             async_create_hue_device(name, e) =>
                 IF OtherLinks(NoId, e) # {}
                 THEN out'.result \in ValueErrors /\ devices' = devices
                 ELSE _is_valid_entity(e) =>
                          /\ tasks' # tasks
                          /\ devices'[tasks'[FreeTask].id].entity_id = e
       /\ \A i \in DOMAIN devices, e \in EntityIds :
             async_update_hue_device(i, None, e) =>
                 IF OtherLinks(i, e) # {}
                 THEN out'.result \in ValueErrors /\ devices' = devices
                 ELSE _is_valid_entity(e) =>
                          /\ tasks' # tasks
                          /\ devices'[i].entity_id = e]_vars

\* C4 happens: device 1 of the stored document linked light.a and was
\* deleted, and the second call then linked light.a to device 2.
C4_Witness ==
    /\ ncalls = 2
    /\ 1 \in deleted
    /\ 2 \in DOMAIN devices
    /\ devices[2].entity_id = <<"light", "a">>

\* The lowest positive integer that is neither an active nor a retired ID.
LowestUnusedId ==
    CHOOSE i \in 1..(Cardinality(DOMAIN devices \cup retired_ids) + 1) :
        /\ i \notin DOMAIN devices \cup retired_ids
        /\ \A j \in 1..(i - 1) : j \in DOMAIN devices \cup retired_ids

\* C5: a create that succeeds gives its device the lowest positive integer
\* that is neither an active nor a retired ID.
C5_CreateAssignsLowestUnusedId ==
    [][\A name \in Names, e \in EntityIds \cup {NoEntity} :
          (async_create_hue_device(name, e) /\ tasks' # tasks) =>
              tasks'[FreeTask].id = LowestUnusedId]_vars

\* C6: a create given an entity that the platform does not have, or whose
\* domain is not a supported one, raises the "not valid" validation error,
\* and no device is created.
C6_CreateRejectsInvalidEntity ==
    [][\A name \in Names, e \in EntityIds :
          (/\ async_create_hue_device(name, e)
           /\ \/ hass_states[e] = NoState
              \/ e[1] \notin SUPPORTED_DOMAINS) =>
              /\ out' = Out("create", NoId, "ValueError: not valid")
              /\ devices' = devices
              /\ tasks' = tasks]_vars

\* C6 happens: every call has returned, the last one a create refused for
\* its entity, and the registry holds no device.
C6_Witness ==
    /\ AllIdle
    /\ out = Out("create", NoId, "ValueError: not valid")
    /\ ncalls > 0
    /\ devices = <<>>

\* C7: a delete of an active ID removes the device, adds the ID to the
\* retired set and returns True once saved; a delete of an ID that is not
\* active (never allocated, or already deleted) returns False and changes
\* neither the devices, the retired set nor the counter.
C7_DeleteRetires ==
    [][/\ \A i \in HueIds :
             async_delete_hue_device(i) =>
                 IF i \in DOMAIN devices
                 THEN /\ devices' = Pop(devices, i)
                      /\ retired_ids' = retired_ids \cup {i}
                      /\ tasks'[FreeTask].op = "delete"
                 ELSE /\ out' = Out("delete", i, "False")
                      /\ UNCHANGED <<devices, retired_ids, next_id_counter,
                                     tasks>>
       /\ \A t \in Tasks :
             (_save_data(t, TRUE) /\ tasks[t].op = "delete") =>
                 out' = Out("delete", tasks[t].id, "True")]_vars

\* C7 happens: every call has returned, the last one a delete that returned
\* False for an ID an earlier delete had retired.
C7_Witness ==
    /\ AllIdle
    /\ out.op = "delete"
    /\ out.result = "False"
    /\ out.id \in deleted
    /\ out.id \in retired_ids

\* C8: an update of an active device leaves its link alone when no entity
\* is given, unlinks it when the entity given is None, accepts the device's
\* current entity unvalidated, and for any other entity either links it or,
\* when it is not valid or another device links it, raises a validation
\* error and changes nothing.
C8_UpdateLink ==
    [][\A i \in DOMAIN devices, e \in EntityIds \cup {NoEntity, UNSET} :
          async_update_hue_device(i, None, e) =>
              IF e = UNSET
              THEN /\ tasks' # tasks
                   /\ devices'[i].entity_id = devices[i].entity_id
              ELSE IF e = NoEntity \/ e = devices[i].entity_id
              THEN /\ tasks' # tasks
                   /\ devices'[i].entity_id = e
              ELSE IF ~_is_valid_entity(e) \/ OtherLinks(i, e) # {}
              THEN /\ out'.result \in ValueErrors
                   /\ devices' = devices
                   /\ tasks' = tasks
              ELSE /\ tasks' # tasks
                   /\ devices'[i].entity_id = e]_vars

\* C8 happens: the only call so far was an update that gave device 1, linked
\* in the stored document, the entity None; it returned True and the device
\* is unlinked.
C8_Witness ==
    /\ ncalls = 1
    /\ out = Out("update", 1, "True")
    /\ 1 \in DOMAIN devices
    /\ devices[1].entity_id = NoEntity

\* C9: a load that finds an active or a retired ID sets the counter to the
\* largest of them plus one, whatever counter the document stores; and the
\* counter is above every active and every retired ID in every state, so
\* an ID allocated after a restore is greater than all of them.
C9_CounterFromLoadedIds ==
    /\ [](\A i \in (DOMAIN devices) \cup retired_ids : i < next_id_counter)
    /\ [][(/\ \/ async_setup(TRUE)
              \/ \E t \in Tasks : _load_data(t, TRUE)
           /\ store # <<>>
           /\ (DOMAIN devices') \cup retired_ids' # {}) =>
              next_id_counter' =
                  SetMax((DOMAIN devices') \cup retired_ids') + 1]_vars

\* C9 happens: the registry was loaded from a document whose stored counter
\* is not above the IDs it holds, and a device was then created above them.
C9_Witness ==
    /\ store # <<>>
    /\ \E t \in Tasks :
          /\ tasks[t].op = "create"
          /\ tasks[t].pc = "save"
          /\ tasks[t].id > SetMax(DOMAIN store[1].devices)
          /\ store[1].next_id_counter <= SetMax(DOMAIN store[1].devices)

\* C10: a Hue ID retired by a delete stays retired, and is no active
\* device's ID, across every later save, load and reload.
C10_RetiredStaysRetired ==
    \A i \in deleted : i \in retired_ids /\ i \notin DOMAIN devices

(* ------------------- properties of the Hue requests ------------------- *)

Local == "192.168.1.20"

\* The entity that device hue_id links has an entry in the echo cache.
HasEntry(hue_id) ==
    /\ hue_id \in DOMAIN devices
    /\ devices[hue_id].entity_id # NoEntity
    /\ hass_states[devices[hue_id].entity_id] # NoState
    /\ devices[hue_id].entity_id \in DOMAIN cached_states

EntryOf(hue_id) == cached_states[devices[hue_id].entity_id]

\* The entry has not expired and its on/off is the entity's on/off.
Fresh(hue_id) ==
    /\ now - EntryOf(hue_id).time[1] < CACHE_TIMEOUT
    /\ EntryOf(hue_id).state.on
           = _hass_to_hue_state(State(devices[hue_id].entity_id))

\* What device_to_json reports of device hue_id when the echo cache holds
\* nothing: the state computed from the entity.
LiveJson(hue_id) == device_to_json(devices[hue_id], <<>>, now).json

\* C11: a GET that reads an entity whose echo-cache entry has a deadline
\* returns the cached state only if the entry is younger than CACHE_TIMEOUT
\* and its on/off equals the entity's on/off; otherwise the GET removes the
\* entry and reports the state computed from the entity.
C11_DeadlineEntryRead ==
    [][\A i \in ApiIds :
           (/\ HasEntry(i)
            /\ EntryOf(i).time # <<>>
            /\ ~Fresh(i)
            /\ HueOneLightStateView_get(Local, i))
           => /\ devices[i].entity_id \notin DOMAIN cached_states'
              /\ out'.body[1] = LiveJson(i)]_vars

\* C11 happens: a PUT to the light was acknowledged, which left an entry
\* with a deadline, and the GET that followed it has removed the entry and
\* reported the light's own brightness.
C11_Witness ==
    /\ ncalls = 2
    /\ requests = <<>>
    /\ Len(calls) = 1
    /\ calls[1].data["entity_id"] = <<"light", "a">>
    /\ out.op = "GET" /\ out.id = 1 /\ out.result = Success
    /\ <<"light", "a">> \notin DOMAIN cached_states
    /\ out.body[1].state.on
    /\ out.body[1].state.bri = hass_to_hue_brightness(128)

\* The on/off of the entity that device hue_id links.
LiveOn(hue_id) == _hass_to_hue_state(State(devices[hue_id].entity_id))

\* C12 as stated: a GET that reads an entity whose on/off differs from the
\* on/off of its echo-cache entry removes the entry and reports the entity's
\* on/off, whether the entry has a deadline or not.
C12_AnyEntryDiscardedOnMismatch ==
    [][\A i \in ApiIds :
           (/\ HasEntry(i)
            /\ EntryOf(i).state.on # LiveOn(i)
            /\ HueOneLightStateView_get(Local, i))
           => /\ devices[i].entity_id \notin DOMAIN cached_states'
              /\ out'.body[1].state.on = LiveOn(i)]_vars

\* C12, amended: a GET that reads an entity whose on/off differs from the
\* on/off of its echo-cache entry removes the entry and reports the entity's
\* on/off if the entry has a deadline; an entry without a deadline stays and
\* the GET reports the entry's on/off.
C12_DeadlineEntryDiscardedOnMismatch ==
    [][\A i \in ApiIds :
           (/\ HasEntry(i)
            /\ EntryOf(i).state.on # LiveOn(i)
            /\ HueOneLightStateView_get(Local, i))
           => IF EntryOf(i).time # <<>>
              THEN /\ devices[i].entity_id \notin DOMAIN cached_states'
                   /\ out'.body[1].state.on = LiveOn(i)
              ELSE /\ devices[i].entity_id \in DOMAIN cached_states'
                   /\ out'.body[1].state.on = EntryOf(i).state.on]_vars

\* C12 happens: at time 0 the light was told to go off, went off, the PUT
\* was acknowledged, the light went on again, and the GET that followed
\* found the fresh entry's off against the light's on, removed the entry and
\* reported on.
C12_Witness ==
    /\ now = 0
    /\ ncalls = 2
    /\ requests = <<>>
    /\ Len(calls) = 1
    /\ calls[1].service = "turn_off"
    /\ calls[1].data["entity_id"] = <<"light", "a">>
    /\ hass_states[<<"light", "a">>] = "on"
    /\ out.op = "GET" /\ out.id = 1 /\ out.result = Success
    /\ out.body[1].state.on
    /\ <<"light", "a">> \notin DOMAIN cached_states

\* The request at index r has its body, which is {"on": false}, and had
\* found its entity on.
OffForOn(r) ==
    /\ requests[r].pc = "json"
    /\ requests[r].body = Object(Off)
    /\ _hass_to_hue_state(requests[r].entity)

\* The call tells the entity to go off: turn_off, or for a script turn_on
\* with requested_state off.
OffEquivalent(call, entity_id) ==
    /\ call.data["entity_id"] = entity_id
    /\ IF entity_id[1] = "script"
       THEN /\ call.service = "turn_on"
            /\ call.data["variables"]["requested_state"] = "off"
       ELSE call.service = "turn_off"

\* No request has waited for its entity's state change for longer than
\* STATE_CHANGE_TIMEOUT.
WaitsAtMostTimeout ==
    \A r \in DOMAIN requests :
        requests[r].pc = "wait" =>
            now - requests[r].start <= STATE_CHANGE_TIMEOUT

\* The entity of device hue_id has the echo of a PUT that asked for off and
\* had found the entity on, and the echo is younger than CACHE_TIMEOUT.
FreshOffEcho(hue_id) ==
    /\ HasEntry(hue_id)
    /\ EntryOf(hue_id).time # <<>>
    /\ now - EntryOf(hue_id).time[1] < CACHE_TIMEOUT
    /\ ~EntryOf(hue_id).state.on
    /\ found[devices[hue_id].entity_id]

OffMapsToOnEchoes ==
    {e \in DOMAIN cached_states : e[1] \in OFF_MAPS_TO_ON_DOMAINS}

\* The request at index r is acknowledged in this step.
Acknowledged(r) ==
    \/ HueOneLightChangeView_put_json(r) /\ Len(requests') < Len(requests)
    \/ _wait_for_state_change_or_timeout(r)

\* C14: every accepted PUT to a script or a scene calls turn_on and never
\* turn_off, for a script with requested_state off when the body is
\* {"on": false}; the echo of a script or scene has no deadline, and it
\* stays in the cache, its on/off changed only by the acknowledgement of a
\* PUT to the same entity.
C14_OffMapsToOn ==
    /\ [][\A r \in DOMAIN requests :
              (/\ requests[r].pc = "json"
               /\ requests[r].entity.domain \in OFF_MAPS_TO_ON_DOMAINS
               /\ HueOneLightChangeView_put_json(r))
              => /\ Len(calls') = Len(calls) + 1
                 /\ calls'[Len(calls')].service = "turn_on"
                 /\ calls'[Len(calls')].data["entity_id"]
                        = requests[r].entity_id
                 /\ (/\ requests[r].entity.domain = "script"
                     /\ requests[r].body = Object(Off))
                    => calls'[Len(calls')].data["variables"]
                           ["requested_state"] = "off"]_vars
    /\ [](\A e \in OffMapsToOnEchoes : cached_states[e].time = <<>>)
    /\ [][\A e \in OffMapsToOnEchoes :
              /\ e \in DOMAIN cached_states'
              /\ cached_states'[e].time = <<>>
              /\ cached_states'[e].state.on # cached_states[e].state.on
                 => \E r \in DOMAIN requests :
                        /\ requests[r].entity_id = e
                        /\ Acknowledged(r)]_vars

\* C14 happens: a PUT {"on": false} to the script called turn_on with
\* requested_state off and was acknowledged; CACHE_TIMEOUT and more later a
\* GET has read the script, and the echo with its off is still in the cache.
C14_Witness ==
    /\ ncalls = 2
    /\ requests = <<>>
    /\ Len(calls) = 1
    /\ calls[1].service = "turn_on"
    /\ calls[1].data["entity_id"] = <<"script", "s">>
    /\ calls[1].data["variables"]["requested_state"] = "off"
    /\ now > CACHE_TIMEOUT
    /\ out.op = "GET" /\ out.id = 1 /\ out.result = Success
    /\ ~out.body[1].state.on
    /\ <<"script", "s">> \in DOMAIN cached_states
    /\ cached_states[<<"script", "s">>].time = <<>>

\* The on/off that the request at index r asks for, once its body is parsed.
RequestedOn(r) ==
    InterpretBri(requests[r].body.json,
                 ParseBody(requests[r].body.json, requests[r].entity).parsed,
                 requests[r].entity).on

\* C15: a PUT whose body has arrived enters the wait for the entity's state
\* change if and only if it calls a service and the on/off it asks for
\* differs from the on/off the entity has when the service is called, also
\* when the entity changed after the handler had read it.
C15_WaitsIffStateWillChange ==
    [][\A r \in DOMAIN requests :
           (requests[r].pc = "json" /\ HueOneLightChangeView_put_json(r))
           => ((/\ Len(requests') = Len(requests)
                /\ requests'[r].pc = "wait")
               <=> (/\ Len(calls') > Len(calls)
                    /\ RequestedOn(r)
                           # _hass_to_hue_state(
                                 State(requests[r].entity_id))))]_vars

\* The request with this id is suspended in the wait for a state change.
Waiting(id) ==
    \E r \in DOMAIN requests :
        requests[r].id = id /\ requests[r].pc = "wait"

\* The request with this id is in the handler.
InHandler(id) == \E r \in DOMAIN requests : requests[r].id = id

\* C16: every PUT that enters the wait for a state change leaves it, by the
\* entity's state-change event or by the timeout, and what ends the wait is
\* the acknowledgement of the request.
C16_WaitEnds ==
    /\ \A id \in 1..MaxWaits : Waiting(id) ~> ~InHandler(id)
    /\ [][\A r \in DOMAIN requests :
              (/\ requests[r].pc = "wait"
               /\ \A q \in DOMAIN requests' :
                      requests'[q].id # requests[r].id)
              => /\ requests[r].ev
                    \/ now - requests[r].start = STATE_CHANGE_TIMEOUT
                 /\ out' = Reply("PUT", requests[r].entity_number, Success,
                                 json_response(requests[r].entity_number,
                                               requests[r].parsed[1]))]_vars

\* C16 happens: a PUT {"on": false} to the light that was on has called
\* turn_off and waited, and STATE_CHANGE_TIMEOUT later, the light still on,
\* it has been acknowledged.
C16_Witness ==
    /\ ncalls = 1
    /\ requests = <<>>
    /\ now = STATE_CHANGE_TIMEOUT
    /\ Len(calls) = 1
    /\ calls[1].service = "turn_off"
    /\ hass_states[<<"light", "a">>] = "on"
    /\ <<"light", "a">> \in DOMAIN found
    /\ found[<<"light", "a">>]
    /\ out = Reply("PUT", 1, Success, json_response(1,
                   cached_states[<<"light", "a">>].state))
    /\ cached_states[<<"light", "a">>].time = Some(STATE_CHANGE_TIMEOUT)

\* A PUT is suspended in the wait for a state change.
SomeWaiting == \E r \in DOMAIN requests : requests[r].pc = "wait"

\* C17: while a PUT is suspended in the wait for a state change, a GET and a
\* PUT of every device and a create, an update and a delete of the registry
\* can start (as far as the run's numbers of calls, coroutines and IDs go),
\* and every call that has started can go on: a save can end, a body can be
\* handled.
C17_WaitBlocksNothing ==
    /\ [](SomeWaiting /\ ncalls < MaxCalls
          => /\ \A i \in BusyIds :
                    /\ ENABLED HueOneLightStateView_get(Local, i)
                    /\ ENABLED HueOneLightChangeView_put(Local, i,
                                                         Object(Off))
             /\ HasFreeTask
                => /\ \A i \in BusyIds :
                          /\ ENABLED async_delete_hue_device(i)
                          /\ ENABLED async_update_hue_device(i, None,
                                                             NoEntity)
                   /\ _generate_hue_id(next_id_counter) <= MaxId
                      => ENABLED CreateBusy)
    /\ [](SomeWaiting
          => /\ \A t \in Tasks :
                    tasks[t].pc = "save" => ENABLED _save_data(t, TRUE)
             /\ \A r \in DOMAIN requests :
                    requests[r].pc = "json"
                        => ENABLED HueOneLightChangeView_put_json(r))

\* C17 happens: the first PUT, to the light, has called turn_off and waits;
\* after that call a PUT to the script has made its call and was
\* acknowledged, and a delete of the script's device has saved the registry.
C17_Witness ==
    /\ ncalls = 3
    /\ Len(requests) = 1
    /\ requests[1].pc = "wait"
    /\ requests[1].id = 1
    /\ Len(calls) = 2
    /\ calls[1].data["entity_id"] = <<"light", "a">>
    /\ calls[2].data["entity_id"] = <<"script", "s">>
    /\ <<"script", "s">> \in DOMAIN cached_states
    /\ deleted = {2}
    /\ out = Out("delete", 2, "True")
    /\ AllIdle

\* The ID is of no device, or of a device that links no entity or an entity
\* the platform does not have.
NotThere(hue_id) ==
    \/ hue_id \notin DOMAIN devices
    \/ devices[hue_id].entity_id = NoEntity
    \/ hass_states[devices[hue_id].entity_id] = NoState

\* C18: a PUT from a local address that names an unknown ID, an unlinked
\* device or a device whose entity the platform does not have is answered
\* "resource not available" (404, error type 3) whatever its body; it calls
\* no service, writes no cache entry and does not wait for the body.
C18_NotThereIsNotAvailable ==
    [][\A i \in PutIds, body \in Bodies :
           (NotThere(i) /\ HueOneLightChangeView_put(Local, i, body))
           => /\ out' = Out("PUT", i, NotAvailable)
              /\ calls' = calls
              /\ cached_states' = cached_states
              /\ requests' = requests]_vars

\* C18 happens: the PUT of the device whose entity is gone has recorded the
\* client and returned "not available"; nothing was called or cached.
C18_Witness ==
    /\ ncalls = 1
    /\ out = Out("PUT", 6, NotAvailable)
    /\ devices[6].last_accessed_by = Local
    /\ hass_states[devices[6].entity_id] = NoState
    /\ requests = <<>>
    /\ calls = <<>>
    /\ cached_states = <<>>

\* int(value) gives an integer: the value is a number or the text of one.
Convertible(value) ==
    \/ value[1] \in {"int", "bool"}
    \/ value[1] = "str" /\ value[2] = "12"

\* The body is no JSON, or one of its fields has the wrong type: on is no
\* boolean, an integer field is not convertible to an integer, xy is not a
\* list of two numbers.
Malformed(body) ==
    \/ ~body.valid
    \/ /\ "on" \in DOMAIN body.json
       /\ body.json["on"][1] # "bool"
    \/ \E k \in DOMAIN body.json :
           /\ k \in {"bri", "hue", "sat", "ct", "transitiontime"}
           /\ ~Convertible(body.json[k])
    \/ /\ "xy" \in DOMAIN body.json
       /\ \/ body.json["xy"][1] # "list"
          \/ /\ body.json["xy"][1] = "list"
             /\ \/ Len(body.json["xy"][2]) # 2
                \/ \E n \in DOMAIN body.json["xy"][2] :
                       body.json["xy"][2][n][1] # "int"

\* C19: a PUT to a linked device whose entity the platform has, with a body
\* that is no JSON or has a field of the wrong type, is answered 400; it
\* calls no service and leaves the echo cache as it is.
C19_MalformedIsBadRequest ==
    [][\A r \in DOMAIN requests :
           (/\ requests[r].pc = "json"
            /\ Malformed(requests[r].body)
            /\ HueOneLightChangeView_put_json(r))
           => /\ out' = Out("PUT", requests[r].entity_number, BadRequest)
              /\ calls' = calls
              /\ cached_states' = cached_states]_vars

\* The request at index r is accepted and acknowledged in this step.
Accepted(r) == Acknowledged(r) /\ out'.result = Success

\* The success entries of a reply for one attribute.
EntriesFor(reply, attr) ==
    {n \in DOMAIN reply.body[1] : reply.body[1][n].attr = attr}

\* The handler drops a supplied bri: the entity is a light without
\* brightness support, or a scene.
BriDropped(entity) ==
    \/ /\ entity.domain = "light"
       /\ ~brightness_supported(entity.attributes.supported_color_modes)
    \/ entity.domain = "scene"

\* C20 as stated: the acknowledgement of an accepted PUT has exactly one
\* success entry for on, and a success entry for each of bri, hue, sat, ct,
\* xy and transitiontime if and only if the body supplies the field,
\* whatever the device's category.
C20_EntryIffSupplied ==
    [][\A r \in DOMAIN requests :
           Accepted(r)
           => /\ Cardinality(EntriesFor(out', "on")) = 1
              /\ \A k \in {"bri", "hue", "sat", "ct", "xy",
                           "transitiontime"} :
                     EntriesFor(out', k) # {}
                         <=> k \in DOMAIN requests[r].body.json]_vars

\* C20, amended: the acknowledgement of an accepted PUT has exactly one
\* success entry for on, a success entry for each of hue, sat, ct, xy and
\* transitiontime if and only if the body supplies the field, and a success
\* entry for bri if and only if the body supplies bri and the device is
\* neither a light without brightness support nor a scene.
C20_EntryIffSuppliedAndKept ==
    [][\A r \in DOMAIN requests :
           Accepted(r)
           => /\ Cardinality(EntriesFor(out', "on")) = 1
              /\ \A k \in {"hue", "sat", "ct", "xy", "transitiontime"} :
                     EntriesFor(out', k) # {}
                         <=> k \in DOMAIN requests[r].body.json
              /\ EntriesFor(out', "bri") # {}
                     <=> /\ "bri" \in DOMAIN requests[r].body.json
                         /\ ~BriDropped(requests[r].entity)]_vars

\* C20 happens: a PUT {"bri": 100} to the script has called turn_on with the
\* level 39 and was acknowledged with one entry for on and one for bri.
C20_Witness ==
    /\ ncalls = 1
    /\ requests = <<>>
    /\ Len(calls) = 1
    /\ calls[1].data.entity_id = <<"script", "s">>
    /\ "requested_level" \in DOMAIN calls[1].data["variables"]
    /\ calls[1].data["variables"]["requested_level"] = 39
    /\ out.op = "PUT" /\ out.id = 4 /\ out.result = Success
    /\ Len(out.body[1]) = 2
    /\ Cardinality(EntriesFor(out, "on")) = 1
    /\ Cardinality(EntriesFor(out, "bri")) = 1

\* The parsed state the handler derives from the body of request req.
ParsedOf(req) ==
    InterpretBri(req.body.json, ParseBody(req.body.json, req.entity).parsed,
                 req.entity)

\* C21: every acknowledged PUT writes exactly one echo-cache entry: the
\* cache changes at the key of the entity the handler resolved from the
\* device's link and at no other key; the entry holds the parsed requested
\* state (whose on value is the one acknowledged); it has no expiry if and
\* only if the entity's domain is script or scene, and otherwise carries
\* the time of the write.
C21_AckWritesOneEntry ==
    [][\A r \in DOMAIN requests :
           Accepted(r)
           => LET req == requests[r]
                  e == req.entity_id
              IN  /\ DOMAIN cached_states' = DOMAIN cached_states \cup {e}
                  /\ \A x \in DOMAIN cached_states :
                         x # e => cached_states'[x] = cached_states[x]
                  /\ cached_states'[e].state = ParsedOf(req)
                  /\ \A n \in EntriesFor(out', "on") :
                         out'.body[1][n].value = cached_states'[e].state.on
                  /\ cached_states'[e].time = <<>>
                         <=> e[1] \in {"script", "scene"}
                  /\ e[1] \notin {"script", "scene"}
                         => cached_states'[e].time = <<now'>>]_vars

\* C21 happens: the PUT off to the light that is on was acknowledged when
\* its wait timed out, and the entry carries the time of that write, not
\* the time the command was dispatched.
C21_Witness ==
    /\ out.op = "PUT" /\ out.id = 1 /\ out.result = Success
    /\ requests = <<>>
    /\ DOMAIN cached_states = {<<"light", "a">>}
    /\ cached_states[<<"light", "a">>].state.on = FALSE
    /\ cached_states[<<"light", "a">>].time = <<now>>
    /\ now >= STATE_CHANGE_TIMEOUT

\* A request from the foreign address 8.8.8.8 to any of the views.
Foreign == "8.8.8.8"

ForeignRequest ==
    \/ \E body \in Pairings : HueUsernameView_post(Foreign, body)
    \/ HueUnauthorizedUser_get(Foreign)
    \/ HueConfigView_get(Foreign)
    \/ HueFullStateView_get(Foreign, HUE_API_USERNAME)
    \/ HueAllLightsStateView_get(Foreign)
    \/ \E i \in HueIds : HueOneLightStateView_get(Foreign, i)
    \/ \E i \in HueIds, json \in {Off, On} :
           HueOneLightChangeView_put(Foreign, i, Object(json))
    \/ HueAllGroupsStateView_get(Foreign)
    \/ HueGroupView_put(Foreign)

\* C22 as stated: every view answers a request from a non-local address with
\* HTTP 401 and without side effect: no device's last access, no platform
\* command, no echo-cache entry and no pending request changes.
C22_ForeignIsUnauthorized ==
    [][ForeignRequest
           => /\ out'.result = Unauthorized
              /\ UNCHANGED <<devices, calls, cached_states, requests>>]_vars

\* The lights list has answered a local client in this step.
Listed == HueAllLightsStateView_get(Local)

\* C23: in every registry state, the keys of the GET lights response are
\* the IDs of the active devices that are linked to an entity: no unlinked
\* and no deleted device appears, and every linked active device does.
C23_ListsLinkedDevices ==
    [][Listed
           => /\ DOMAIN out'.body[1] =
                     {i \in DOMAIN devices : devices[i].entity_id # NoEntity}
              /\ DOMAIN out'.body[1] \cap (retired_ids \cup deleted) = {}]_vars

\* C23 happens: device 2 was deleted and device 3 created without a link,
\* both calls have returned, and the list taken after them names device 1
\* only.
C23_Witness ==
    /\ AllIdle
    /\ out.op = "GET lights" /\ out.result = Success
    /\ DOMAIN out.body[1] = {1}
    /\ DOMAIN devices = {1, 3}
    /\ devices[1].entity_id # NoEntity
    /\ devices[3].entity_id = NoEntity
    /\ 2 \in deleted

\* The device is unlinked, or the platform does not have its entity.
Absent(device) ==
    \/ device.entity_id = NoEntity
    \/ hass_states[device.entity_id] = NoState

\* The light resource has the fixed unreachable shape.
FixedShape(json) ==
    /\ json.type = "Dimmable light"
    /\ json.state = [on |-> FALSE, reachable |-> FALSE, bri |-> 0]

\* The cache holds for the device's entity after the step what it held
\* before it.
EntryKept(device) ==
    \/ device.entity_id = NoEntity
    \/ /\ device.entity_id \notin DOMAIN cached_states
       /\ device.entity_id \notin DOMAIN cached_states'
    \/ /\ device.entity_id \in DOMAIN cached_states
       /\ device.entity_id \in DOMAIN cached_states'
       /\ cached_states'[device.entity_id] = cached_states[device.entity_id]

\* C24: the light resource of an active device that is unlinked, or whose
\* entity the platform does not have, is the fixed shape (Dimmable light,
\* on false, reachable false, bri 0) in the single light's reply and in the
\* lights list, whatever the echo cache holds for the entity, and the
\* request leaves the entity's cache entry as it is.
C24_AbsentIsFixedShape ==
    [][/\ \A i \in DOMAIN devices :
              HueOneLightStateView_get(Local, i) /\ Absent(devices[i])
              => /\ FixedShape(out'.body[1])
                 /\ cached_states' = cached_states
       /\ HueAllLightsStateView_get(Local)
              => \A i \in DOMAIN devices :
                     is_linked(devices[i]) /\ Absent(devices[i])
                     => /\ FixedShape(out'.body[1][i])
                        /\ EntryKept(devices[i])]_vars

\* C24 happens: the PUT off to the light was acknowledged and cached, the
\* platform has lost the light, and the GET of device 1 that followed was
\* answered with the fixed shape while the cache still holds the entry.
C24_Witness ==
    /\ hass_states[<<"light", "a">>] = NoState
    /\ 1 \in DOMAIN devices
    /\ devices[1].entity_id = <<"light", "a">>
    /\ <<"light", "a">> \in DOMAIN cached_states
    /\ out.op = "GET" /\ out.id = 1 /\ out.result = Success
    /\ out.body[1].type = "Dimmable light"
    /\ ~out.body[1].state.reachable

\* The light type the claim assigns to a domain, the colour modes and the
\* features an entity declares.
TypeOf(domain, color_modes, features) ==
    LET color == color_modes \cap {"hs", "rgb", "rgbw", "rgbww", "xy"} # {}
        temperature == "color_temp" \in color_modes
    IN  CASE domain = "light" /\ color /\ temperature ->
                 "Extended color light"
          [] domain = "light" /\ color /\ ~temperature -> "Color light"
          [] domain = "light" /\ ~color /\ temperature ->
                 "Color temperature light"
          [] \/ domain = "light" /\ ~color /\ ~temperature
                   /\ color_modes \cap {"brightness", "white"} # {}
             \/ domain = "cover" /\ "SET_POSITION" \in features
             \/ domain = "fan" /\ "SET_SPEED" \in features
             \/ domain = "media_player" /\ "VOLUME_SET" \in features
             \/ domain = "climate" /\ "TARGET_TEMPERATURE" \in features ->
                 "Dimmable light"
          [] OTHER -> "On/Off light"

\* The declared type of the entity of device 1.
DeclaredType ==
    LET e == devices[1].entity_id IN
    TypeOf(e[1], attributes(e).supported_color_modes,
           attributes(e).supported_features)

\* C25: the light type reported for an entity, by the single light's reply
\* and by the lights list, is the one its domain and its declared colour
\* modes and features give (Extended color, Color, Color temperature,
\* Dimmable, else On/Off), whatever its state and whatever the echo cache
\* holds; an entity that is no light is never reported as a Color, Color
\* temperature or Extended color light.
C25_TypeFromCapabilities ==
    [][/\ HueOneLightStateView_get(Local, 1)
              => /\ out'.body[1].type = DeclaredType
                 /\ devices[1].entity_id[1] # "light"
                        => out'.body[1].type \in {"Dimmable light",
                                                  "On/Off light"}
       /\ HueAllLightsStateView_get(Local)
              => out'.body[1][1].type = DeclaredType]_vars

\* C25 happens: the switch whose attributes carry colour modes was switched
\* by a PUT, and the GET that found the echo in the cache reports it as an
\* On/Off light.
C25_Witness ==
    /\ devices[1].entity_id = <<"switch", "x">>
    /\ <<"switch", "x">> \in DOMAIN cached_states
    /\ out.op = "GET" /\ out.id = 1 /\ out.result = Success
    /\ out.body[1].type = "On/Off light"

\* C26: for every platform brightness b in 0..255 the Hue bri reported
\* after one round trip (reported, sent back in a PUT, reported again) is the
\* Hue bri reported first; the Hue bri reported for b in 1..255 is at least
\* 1; and the platform brightness a PUT sends for a Hue bri in 1..254 is at
\* least 1.
C26_BrightnessRoundTrip ==
    /\ out.op = "brightness" /\ out.result = "hue"
           => /\ out.body[1] = hass_to_hue_brightness(out.id)
              /\ out.id >= 1 => out.body[1] >= 1
    /\ out.op = "bri" /\ out.result = "platform" /\ ncalls = 1
           => out.body[1] >= 1

\* C26 happens: the platform brightness 200 was reported as bri 199, sent
\* back as brightness 200 and reported again as bri 199.
C26_Witness ==
    /\ out = Value("brightness", 200, "hue", 199)
    /\ ncalls = 3

\* C27 as stated: the platform brightness 0 is reported as Hue bri 0 and is
\* 0 again when that bri is sent back, and a lamp that is off is reported
\* with bri 0.
C27_ZeroIsReportedZero ==
    /\ out.op = "brightness" /\ out.id = 0 => out.body[1] = 0
    /\ out.op = "off" /\ out.result = "hue" => out.body[1] = 0

\* C28: for every Hue ct m in 153..500, the kelvin value the PUT handler
\* sends for m, reported back by the state translator with its clamping, is
\* a ct in 153..500 that differs from m by at most 1.
C28_CtRoundTrip ==
    out.op = "ct" /\ out.result = "mired"
        => /\ out.body[1] \in HUE_API_STATE_CT_MIN..HUE_API_STATE_CT_MAX
           /\ ncalls = 2 => /\ out.body[1] - out.id <= 1
                            /\ out.id - out.body[1] <= 1

\* C28 happens: the ct 347 was sent as 2881 K and reported back as 347.
C28_Witness ==
    /\ out = Value("ct", 347, "mired", 347)
    /\ ncalls = 2

\* The creates suspended at their save.
Creating == {t \in Tasks : tasks[t].pc = "save" /\ tasks[t].op = "create"}

\* C29: however create, update and delete calls interleave at their saves,
\* no two creates under way hold the same ID, no ID is active and retired at
\* once, and the ID a create assigns is greater than every ID assigned
\* before it (the active ones, the retired ones and those of the creates
\* still under way), so the IDs of successive creates strictly increase.
C29_ConcurrentCreates ==
    /\ [](DOMAIN devices \cap retired_ids = {})
    /\ [](\A t, u \in Creating : t # u => tasks[t].id # tasks[u].id)
    /\ [][\A name \in Names, e \in EntityIds \cup {NoEntity} :
              (async_create_hue_device(name, e) /\ tasks' # tasks)
              => \A j \in DOMAIN devices \cup retired_ids \cup deleted
                          \cup {tasks[t].id : t \in Creating} :
                     j < tasks'[FreeTask].id]_vars

\* C29 happens: two creates are suspended at their saves at the same time,
\* the second with the greater ID.
C29_Witness ==
    /\ Creating = {1, 2}
    /\ tasks[1].id < tasks[2].id
    /\ {tasks[1].id, tasks[2].id} \subseteq DOMAIN devices

\* The last reply is the acknowledgement of a PUT: no request was answered
\* since that cache write.
LastWrite == out.op = "PUT" /\ out.result = Success

\* The echo of entity e holds what the acknowledgement reply reports.
EchoIs(e, reply) ==
    /\ e \in DOMAIN cached_states
    /\ \A n \in DOMAIN reply.body[1] :
           LET entry == reply.body[1][n]
           IN  IF entry.attr = "on"
               THEN cached_states[e].state.on = entry.value
               ELSE cached_states[e].state[entry.attr] = <<entry.value>>

\* C30: when PUT requests to the same entity overlap, the entity's echo is
\* the state of the request acknowledged last, whatever the order in which
\* their commands were dispatched: as long as no other request was answered
\* since an acknowledgement, the echo of its entity holds the acknowledged
\* state. No step of a PUT changes the echo of an entity other than its own.
C30_LastWriteWins ==
    /\ [](LastWrite => EchoIs(devices[out.id].entity_id, out))
    /\ [][\A r \in DOMAIN requests :
              (HueOneLightChangeView_put_json(r)
               \/ _wait_for_state_change_or_timeout(r))
              => /\ DOMAIN cached_states'
                        \subseteq DOMAIN cached_states
                                  \cup {requests[r].entity_id}
                 /\ \A x \in DOMAIN cached_states :
                        x # requests[r].entity_id
                        => /\ x \in DOMAIN cached_states'
                           /\ cached_states'[x] = cached_states[x]]_vars

\* C30 happens: the light was on, the command to turn it off was dispatched
\* before the command to turn it on, the PUT on was acknowledged first and
\* the PUT off last, after its wait: the echo says off, and the script's
\* echo written before is still there.
C30_Witness ==
    /\ Len(calls) = 3
    /\ calls[1].data.entity_id = <<"script", "s">>
    /\ calls[2].service = "turn_off"
    /\ calls[2].data.entity_id = <<"light", "a">>
    /\ calls[3].service = "turn_on"
    /\ calls[3].data.entity_id = <<"light", "a">>
    /\ requests = <<>>
    /\ LastWrite /\ out.id = 1
    /\ {<<"light", "a">>, <<"script", "s">>} \subseteq DOMAIN cached_states
    /\ ~cached_states[<<"light", "a">>].state.on

\* The on/off of an entity in the given state: off is "closed" for a cover
\* and "off" for every other domain.
OnOff(entity_id, state) ==
    IF entity_id[1] = "cover" THEN state # "closed" ELSE state # "off"

\* The command says on (or off): a script is told in requested_state, a
\* scene can only be activated, the others are turned on or off, a cover
\* opened or closed.
CommandSays(call, on) ==
    LET domain == call.data.entity_id[1] IN
    CASE domain = "scene" -> call.service = "turn_on"
      [] domain = "script" ->
             /\ call.service = "turn_on"
             /\ call.data["variables"]["requested_state"]
                    = (IF on THEN "on" ELSE "off")
      [] OTHER -> (call.service \in {"turn_on", "open_cover"}) <=> on

\* The body of request req is accepted and has neither on nor bri.
OmitsOn(req) ==
    /\ req.pc = "json"
    /\ req.body.valid
    /\ {"on", "bri"} \cap DOMAIN req.body.json = {}
    /\ ParseBody(req.body.json, req.entity).status = "ok"

Rescaled(bri) == (200 * bri + 254) \div 508

\* The domains whose level a bri sets.
LevelDomains ==
    {"script", "media_player", "fan", "cover", "climate", "humidifier"}

\* The request at index r carries a bri that the handler accepts.
SuppliesBri(r) ==
    /\ requests[r].body.valid
    /\ "bri" \in DOMAIN requests[r].body.json
    /\ requests[r].body.json["bri"][1] = "int"

\* C32: a bri in the body overrides the requested on/off, whatever the
\* body's on says.  For a light with brightness support on is bri > 0, and
\* the command is turn_on exactly when bri > 0; for a scene the bri is
\* dropped and on is true; for a script, media player, fan, cover, climate
\* or humidifier the bri is rescaled from 0..254 to 0..100 and on is true.
\* The acknowledgement and the echo-cache entry carry these values.
C32_BriOverridesOn ==
    /\ [][\A r \in DOMAIN requests :
              (SuppliesBri(r) /\ Accepted(r))
              => LET req == requests[r]
                     bri == req.body.json["bri"][2]
                     echo == cached_states'[req.entity_id].state
                     on == out'.body[1][CHOOSE n \in EntriesFor(out', "on") :
                                            TRUE].value
                     dimmable ==
                         /\ req.entity.domain = "light"
                         /\ brightness_supported(
                                req.entity.attributes.supported_color_modes)
                 IN  /\ dimmable
                         => /\ on = (bri > 0) /\ echo.on = (bri > 0)
                            /\ echo.bri = <<bri>>
                     /\ req.entity.domain = "scene"
                         => /\ on /\ echo.on /\ echo.bri = <<>>
                            /\ EntriesFor(out', "bri") = {}
                     /\ req.entity.domain \in LevelDomains
                         => /\ on /\ echo.on
                            /\ echo.bri = <<Rescaled(bri)>>
                            /\ \A n \in EntriesFor(out', "bri") :
                                   out'.body[1][n].value = Rescaled(bri)]_vars
    /\ [][\A r \in DOMAIN requests :
              (/\ SuppliesBri(r)
               /\ requests[r].pc = "json"
               /\ requests[r].entity.domain = "light"
               /\ brightness_supported(
                      requests[r].entity.attributes.supported_color_modes)
               /\ HueOneLightChangeView_put_json(r))
              => /\ Len(calls') = Len(calls) + 1
                 /\ calls'[Len(calls')].service
                        = (IF requests[r].body.json["bri"][2] > 0
                           THEN "turn_on" ELSE "turn_off")]_vars

\* C32 happens: the dimmable light is off, the body {on: false, bri: 100}
\* made the handler call turn_on with a brightness, and the request waits
\* for the light to go on.
C32_Witness ==
    /\ Len(requests) = 1
    /\ requests[1].pc = "wait"
    /\ requests[1].entity_id = <<"light", "a">>
    /\ requests[1].body.json = Off @@ Bri(100)
    /\ requests[1].parsed[1].on
    /\ Len(calls) = 1
    /\ calls[1].service = "turn_on"
    /\ "brightness" \in DOMAIN calls[1].data

\* C33: in every state of the registry, the category (device_type) of each
\* active device is the domain of the entity it is linked to, and "light"
\* when it is linked to none -- after a create and after every update that
\* links the device to an entity of another domain or unlinks it.
C33_CategoryFollowsLink ==
    \A i \in DOMAIN devices :
        devices[i].device_type
            = (IF devices[i].entity_id = NoEntity THEN "light"
               ELSE devices[i].entity_id[1])

\* Every bri, hue, sat and ct in the state of a light resource is a number
\* within the Hue bounds.
WithinHueBounds(state) ==
    /\ "bri" \in DOMAIN state
           => state.bri \in HUE_API_STATE_BRI_MIN..HUE_API_STATE_BRI_MAX
    /\ "hue" \in DOMAIN state
           => state.hue \in HUE_API_STATE_HUE_MIN..HUE_API_STATE_HUE_MAX
    /\ "sat" \in DOMAIN state
           => state.sat \in HUE_API_STATE_SAT_MIN..HUE_API_STATE_SAT_MAX
    /\ "ct" \in DOMAIN state
           => /\ state.ct # <<>>
              /\ state.ct[1] \in HUE_API_STATE_CT_MIN..HUE_API_STATE_CT_MAX

\* C34: every bri, hue, sat and ct in the state that a GET of one light or
\* of all lights reports for a linked, existing entity lies within the Hue
\* bounds (bri 1..254, hue 0..65535, sat 0..254, ct 153..500), whether the
\* state is read from the platform or from the echo of an accepted PUT,
\* whatever that PUT carried.
C34_ReportedWithinBounds ==
    [][/\ HueOneLightStateView_get(Local, 1)
              => WithinHueBounds(out'.body[1].state)
       /\ HueAllLightsStateView_get(Local)
              => \A n \in DOMAIN out'.body[1] :
                     WithinHueBounds(out'.body[1][n].state)]_vars

\* The results of a call that raised ValueError at its validation.
ValidationErrors == {"ValueError: not valid", "ValueError: linked"}

\* The call of this step raised at its validation: it set its result and
\* did not reach its save.
Rejected == tasks' = tasks /\ out'.result \in ValidationErrors

\* C35: a create or an update that fails its validation leaves the
\* registry's devices as they were: none is added or removed, no name and no
\* link changes (a name given along with an invalid entity is not applied),
\* and the retired IDs are unchanged.
C35_RejectedLeavesDevices ==
    [][/\ \A name \in Names, e \in EntityIds \cup {NoEntity} :
              (async_create_hue_device(name, e) /\ Rejected)
              => devices' = devices /\ retired_ids' = retired_ids
       /\ \A i \in HueIds, name \in NewNames \cup {None},
             e \in RejectEntityIds :
              (async_update_hue_device(i, name, e) /\ Rejected)
              => devices' = devices /\ retired_ids' = retired_ids]_vars

\* C35 happens: an update that gave a device a new name and an entity that
\* is not valid was refused, and a create for an entity linked already was
\* refused before it: the devices are the ones that were loaded, under
\* their old names, and the counter has moved on.
C35_Witness ==
    /\ out.op = "update" /\ out.result = "ValueError: not valid"
    /\ ncalls = 3
    /\ next_id_counter > 1 + SetMax(DOMAIN devices \cup retired_ids)
    /\ devices # <<>>
    /\ \A i \in DOMAIN devices : devices[i].name \in Names
    /\ \A t \in Tasks : tasks[t].pc = "idle"

\* The IDs of the requests in the confirmation wait.
InWait == {requests[r].id : r \in {x \in DOMAIN requests :
                                        requests[x].pc = "wait"}}

\* C36: the listener a confirmation wait subscribes is removed when the
\* wait ends, by the state-change event or by the timeout: in every state
\* the live listeners are those of the requests in the wait, and there is
\* none when no request is in flight.
C36_ListenersAreWaits ==
    /\ subs = InWait
    /\ requests = <<>> => subs = {}

\* C36 happens: the light is on, the PUT off waited from 0 until the timeout
\* at 5 and was acknowledged with the light still on, and no listener is
\* left.
C36_Witness ==
    /\ requests = <<>>
    /\ subs = {}
    /\ Len(calls) = 1 /\ calls[1].service = "turn_off"
    /\ hass_states[<<"light", "a">>] = "on"
    /\ <<"light", "a">> \in DOMAIN cached_states
    /\ cached_states[<<"light", "a">>].time = <<STATE_CHANGE_TIMEOUT>>
    /\ out.op = "PUT" /\ out.result = Success

\* The device of the request at index r was deleted, or is no longer linked
\* to the entity the handler resolved.
Orphaned(r) ==
    \/ requests[r].entity_number \notin DOMAIN devices
    \/ devices[requests[r].entity_number].entity_id # requests[r].entity_id

\* A step of the registry: a delete, an unlink, a create or the end of a
\* save.
RegistryStep ==
    \/ \E i \in BusyIds : async_delete_hue_device(i)
    \/ \E i \in BusyIds : async_update_hue_device(i, None, NoEntity)
    \/ async_create_hue_device("Lamp", NoEntity)
    \/ \E t \in Tasks : _save_data(t, TRUE)

\* C37: a PUT whose device is deleted or unlinked while the request is
\* suspended, reading its body or in the confirmation wait, still
\* dispatches its command to the entity it resolved, is acknowledged with
\* success and writes the echo-cache entry of that entity; no step of the
\* registry removes or changes an echo-cache entry.
C37_SuspendedPutSurvivesDelete ==
    /\ [][\A r \in DOMAIN requests :
              (/\ Orphaned(r)
               /\ requests[r].pc = "json"
               /\ HueOneLightChangeView_put_json(r))
              => /\ Len(calls') = Len(calls) + 1
                 /\ calls'[Len(calls')].data.entity_id
                        = requests[r].entity_id
                 /\ \/ Accepted(r)
                    \/ /\ Len(requests') = Len(requests)
                       /\ requests'[r].pc = "wait"]_vars
    /\ [][\A r \in DOMAIN requests :
              (Orphaned(r) /\ Acknowledged(r))
              => /\ out' = Reply("PUT", requests[r].entity_number, Success,
                                 out'.body[1])
                 /\ requests[r].entity_id \in DOMAIN cached_states'
                 /\ cached_states'[requests[r].entity_id].state
                        = ParsedOf(requests[r])]_vars
    /\ [][RegistryStep => cached_states' = cached_states]_vars

\* C37 happens: device 2 was deleted and the delete saved while a PUT to it
\* was suspended; the PUT then called the script, was acknowledged with
\* success and left an echo for the script, to which no device is linked.
C37_Witness ==
    /\ 2 \notin DOMAIN devices
    /\ 2 \in deleted
    /\ \A t \in Tasks : tasks[t].pc = "idle"
    /\ requests = <<>>
    /\ out.op = "PUT" /\ out.id = 2 /\ out.result = Success
    /\ Len(calls) = 1
    /\ calls[1].data.entity_id = <<"script", "s">>
    /\ <<"script", "s">> \in DOMAIN cached_states
    /\ \A i \in DOMAIN devices : devices[i].entity_id # <<"script", "s">>

\* The request at index r goes to a climate entity and sets no temperature:
\* its body has no bri, or the entity has no target-temperature feature.
ClimateWithoutLevel(r) ==
    LET req == requests[r] IN
    /\ req.pc = "json"
    /\ req.body.valid
    /\ ParseBody(req.body.json, req.entity).status = "ok"
    /\ req.entity.domain = "climate"
    /\ \/ "bri" \notin DOMAIN req.body.json
       \/ "TARGET_TEMPERATURE"
              \notin req.entity.attributes.supported_features

\* The on/off that the body of request req asks for.
AskedOn(req) ==
    IF "bri" \in DOMAIN req.body.json THEN TRUE
    ELSE IF "on" \in DOMAIN req.body.json THEN req.body.json["on"][2]
    ELSE OnOff(req.entity_id, req.entity.state)

\* C38: a PUT to a climate entity that supplies no bri, or whose entity has
\* no target-temperature support, calls no service and does not wait: it
\* is acknowledged in the step that handles its body, with a success entry
\* for on/off, and its echo-cache entry carries the requested on/off.
C38_ClimateWithoutCommand ==
    [][\A r \in DOMAIN requests :
           (ClimateWithoutLevel(r) /\ HueOneLightChangeView_put_json(r))
           => /\ calls' = calls
              /\ Len(requests') < Len(requests)
              /\ subs' = subs
              /\ out'.op = "PUT" /\ out'.result = Success
              /\ Cardinality(EntriesFor(out', "on")) = 1
              /\ \A n \in EntriesFor(out', "on") :
                     out'.body[1][n].value = AskedOn(requests[r])
              /\ requests[r].entity_id \in DOMAIN cached_states'
              /\ cached_states'[requests[r].entity_id].state.on
                     = AskedOn(requests[r])]_vars

\* C38 happens: the climate entity with target-temperature support is on,
\* a PUT {on: false} was acknowledged with on false and cached, no service
\* was called and the entity is still on.
C38_Witness ==
    /\ devices[1].entity_id = <<"climate", "t">>
    /\ hass_states[<<"climate", "t">>] = "on"
    /\ calls = <<>>
    /\ requests = <<>>
    /\ out.op = "PUT" /\ out.result = Success
    /\ \A n \in EntriesFor(out, "on") : out.body[1][n].value = FALSE
    /\ <<"climate", "t">> \in DOMAIN cached_states
    /\ ~cached_states[<<"climate", "t">>].state.on

\* The request at index r sets the level of a media player with volume-set
\* support or of a humidifier.
TurnsOnFirst(r) ==
    LET req == requests[r] IN
    /\ SuppliesBri(r)
    /\ ParseBody(req.body.json, req.entity).status = "ok"
    /\ \/ /\ req.entity.domain = "media_player"
          /\ "VOLUME_SET" \in req.entity.attributes.supported_features
       \/ req.entity.domain = "humidifier"

\* C39: a PUT with bri to a media player with volume-set support or to a
\* humidifier issues two commands, in this order: the generic turn_on for
\* the entity, then volume_set or set_humidity with the rescaled level --
\* also when the request does not enter the confirmation wait.  A request
\* to any other category issues one command at most.
C39_TurnOnThenLevel ==
    [][\A r \in DOMAIN requests :
           (/\ requests[r].pc = "json"
            /\ requests[r].body.valid
            /\ HueOneLightChangeView_put_json(r))
           => LET req == requests[r]
                  level == Rescaled(req.body.json["bri"][2])
                  n == Len(calls)
              IN  IF TurnsOnFirst(r)
                  THEN /\ Len(calls') = n + 2
                       /\ SubSeq(calls', 1, n) = calls
                       /\ calls'[n + 1]
                              = [domain |-> "homeassistant",
                                 service |-> "turn_on",
                                 data |-> [k \in {"entity_id"} |->
                                               req.entity_id]]
                       /\ calls'[n + 2].domain = req.entity.domain
                       /\ calls'[n + 2].data.entity_id = req.entity_id
                       /\ IF req.entity.domain = "media_player"
                          THEN /\ calls'[n + 2].service = "volume_set"
                               /\ calls'[n + 2].data
                                      ["volume_level_hundredths"] = level
                          ELSE /\ calls'[n + 2].service = "set_humidity"
                               /\ calls'[n + 2].data["humidity"] = level
                  ELSE Len(calls') <= n + 1]_vars

\* C39 happens: the media player is on, the PUT {bri: 100} did not wait and
\* was acknowledged, and the calls are turn_on and then volume_set with 39
\* hundredths.
C39_Witness ==
    /\ devices[1].entity_id = <<"media_player", "m">>
    /\ hass_states[<<"media_player", "m">>] = "on"
    /\ requests = <<>>
    /\ subs = {}
    /\ out.op = "PUT" /\ out.result = Success
    /\ Len(calls) = 2
    /\ calls[1].service = "turn_on" /\ calls[1].domain = "homeassistant"
    /\ calls[2].service = "volume_set"
    /\ calls[2].data["volume_level_hundredths"] = 39
    /\ cached_states[<<"media_player", "m">>].state.bri = <<39>>

\* A read of entity e at time t uses the entry the cache holds for it: the
\* entry has no deadline, or its deadline has not passed and its on/off is
\* the platform's.
UsesEcho(e, cache, t) ==
    /\ e \in DOMAIN cache
    /\ \/ cache[e].time = <<>>
       \/ /\ t - cache[e].time[1] < CACHE_TIMEOUT
          /\ cache[e].state.on = OnOff(e, hass_states[e])

\* No deadline of entity e's entry passes from now to time t.
NoDeadlinePasses(e, cache, t) ==
    \/ e \notin DOMAIN cache
    \/ cache[e].time = <<>>
    \/ t - cache[e].time[1] < CACHE_TIMEOUT
    \/ now - cache[e].time[1] >= CACHE_TIMEOUT

\* C40: reading a device's state is idempotent.  In every reachable state, a
\* GET of a device followed by another GET of it, with no change of the
\* platform, no PUT and no deadline passing between them, returns the same
\* state twice and leaves the cache as the first GET left it; a read that
\* uses the cached entry leaves an entry with the same on/off and the same
\* expiry.
C40_ReadIsIdempotent ==
    \A i \in DOMAIN devices :
        \A first \in {device_to_json(devices[i], cached_states, now)} :
            LET e == devices[i].entity_id IN
            /\ \A t \in now..MaxTime :
                   NoDeadlinePasses(e, first.cache, t)
                   => \A second \in {device_to_json(devices[i],
                                                    first.cache, t)} :
                          /\ second.json = first.json
                          /\ second.cache = first.cache
            /\ UsesEcho(e, cached_states, now)
                   => /\ e \in DOMAIN first.cache
                      /\ first.cache[e].state.on = cached_states[e].state.on
                      /\ first.cache[e].time = cached_states[e].time

\* C40 happens: after a PUT without bri, hue and sat to the light with
\* colour, which is on, two GETs were answered from the echo; the answer is
\* what a third GET would give, and the entry holds the defaults the first
\* GET filled in.
C40_Witness ==
    /\ ncalls = 3
    /\ devices[1].entity_id = <<"light", "ext">>
    /\ Len(calls) = 1
    /\ requests = <<>>
    /\ out.op = "GET" /\ out.result = Success
    /\ UsesEcho(<<"light", "ext">>, cached_states, now)
    /\ cached_states[<<"light", "ext">>].state.bri = <<HUE_API_STATE_BRI_MAX>>
    /\ cached_states[<<"light", "ext">>].state.hue = <<0>>
    /\ out.body[1].state.bri = HUE_API_STATE_BRI_MAX
    /\ out.body[1]
           = device_to_json(devices[1], cached_states, now).json

====
